---- MODULE Spec2Model ----
(***************************************************************************)
(* A model of the raster analysis pipeline of WildMaps-processing: the     *)
(* clip-and-mask engine (analyse_rasters/clipping_and_masking.py), the     *)
(* binning and aggregation engine (analyse_rasters/do_binning.py) and the  *)
(* intersection finder                                                     *)
(* (analyse_rasters/find_polygon_intersections_with_raster.py).            *)
(*                                                                         *)
(* A raster is one row of Width pixels; pixel values are integers (an      *)
(* integer-typed raster, or a float raster whose values lie on the grid of *)
(* quarter points of its 99th percentile). A masked array is a record      *)
(* [data, mask] of two sequences of the same length.                       *)
(***************************************************************************)
EXTENDS Integers, Sequences, FiniteSets, TLC

\* ------------------------------------------------------------------ bounds
\* Number of pixels of the raster grid.
Width == 2
\* Largest stored pixel value.
MaxVal == 3
\* Largest land-use category code.
MaxCat == 1
\* Area of one pixel of the raster grid (in units of km2).
PixelArea == 2
Side == 10
\* Number of countries in the admin-0 file (each with one admin-1 zone).
NCountries == 2

\* --------------------------------------------------------- program values
\* raster_src.nodata, the value that marks a pixel as no-data. It lies
\* inside the range of the bins (as 0 does for a raster of scaled integers),
\* so that only the mask keeps a no-data pixel out of the counts.
NoData == 0
\* The nodata value of the land-use raster (profile['nodata']).
LanduseNoData == 0
\* Number of bins assumed by count_binned_by_category.
NLanduseBins == 4

VARIABLES
    raster_src,     \* stored values of the raster, one per pixel
    raster_data,    \* the full raster in memory: a masked array
    PA_mask,        \* protected-area mask on the full grid: 1 inside, 0 outside
    landuse_src,    \* stored values of the aligned land-use raster
    bins,           \* bin boundaries
    pixel_area_km2, \* area of one pixel
    group_idx,      \* position in the loop over polygon groups
    poly_idx,       \* position in the loop over the polygons of the group
    views,          \* what prepare_PA_masked_raster_and_metadata returned last
    group_results,  \* results_for_all_polygons_in_group__dict
    results,        \* results_for_all_polygon_groups__dict
    \* --- get_bin_counts on its own
    bc_data,        \* data_with_mask
    bc_bins,        \* bins
    bc_out,         \* what get_bin_counts returned
    \* --- find_which_polygons_intersect_raster_wrapper
    gdf_adm0,       \* the country outlines read from path_adm0
    adm1_file,      \* the admin-1 zones stored in path_adm1
    raster_total_area_km2,  \* area of the raster's footprint
    pc,             \* position in the wrapper
    intersections_adm0, list_of_adm0,
    gdf_adm1,       \* the admin-1 zones loaded for the second pass
    intersections_adm1, list_of_adm1,
    \* --- add_index_to_cgaz_adm1
    cgaz_gpkg,      \* the rows of the layer stored in path_adm1
    codes_before,   \* the code each zone had before the last run
    n_runs,         \* how many times the script has run
    \* --- find_intersections_and_do_binning_for_all_rasters
    catalog,        \* the rows of the dataset catalog
    aws_results,    \* the results files in the bucket, by dataset
    local_results,  \* the results files on disk, by dataset
    dataset_idx,    \* position of the loop in the catalog
    loop_pc,        \* "running", "returned", or "raised"
    n_loop_runs,    \* which run of the program this is
    visited,        \* the datasets whose iteration has begun in this run
    had_result,     \* those of them that had a results file when it began
    computed,       \* those of them whose raster was analysed
    completed,      \* those of them whose iteration ran to its end
    completed_before, \* the datasets completed in an earlier run
    \* --- get_ready_wrapper and write_dataset_summary_file
    s3_catalog,     \* the catalog object in the bucket
    s3_catalog_at_start, \* the same, as it was when the program started
    disk_catalog,   \* the catalog file on disk
    s3_manifest,    \* the tile manifest object in the bucket
    catalog_remote, catalog_local, \* the parsed catalogs
    synced_catalog, \* what sync_catalogs returned
    max_zoom,       \* what download_and_parse_aws returned for the manifest
    ready_pc,        \* position in the program
    \* --- geographic_true_centroid
    polygon_is_valid, \* polygon.is_valid and not polygon.is_empty
    tolerance, max_iterations, \* the arguments of geographic_true_centroid
    lon, lat,       \* the current estimate
    previous_lon, previous_lat, \* the estimate the last step started from
    n_steps,        \* re-centering steps taken
    centroid_pc,    \* "start", "loop", "returned", or "raised"
    returned_centroid,
    \* --- reproject_raster
    rp_raster_data, \* the masked array given to reproject_raster
    rp_grid,        \* for each destination pixel, the nearest source pixel
    rp_returned,     \* the masked array reproject_raster returned
    \* --- find_intersections_and_do_binning_for_one_raster
    crs,            \* the CRS of the raster: "none", "geographic", "projected"
    dst_crs,        \* the local dst_crs of bin_raster_for_all_polygon_groups
    raster_pc,      \* where find_intersections_and_do_binning_for_one_raster is
    raster_results,  \* the results it returned
    \* --- prepare_raster_tiles_wrapper
    tiles_local,    \* the files in the local directory of the tileset
    tiles_remote,   \* the objects of the tileset in the bucket
    file_paths,     \* the files upload_tiles_to_aws has still to upload
    tiles_pc,       \* where prepare_raster_tiles_wrapper is
    n_tile_runs,     \* calls of prepare_raster_tiles_wrapper so far
    \* --- upload_file_to_aws and download_file_from_aws
    up_disk,        \* the local file upload_file_to_aws is called for
    up_bucket,      \* the bucket upload_file_to_aws uploads to
    down_local,     \* the local file download_file_from_aws writes
    down_object,    \* the object download_file_from_aws reads
    last_transfer,  \* the last call: its arguments, what it found, its value
    n_transfers,     \* calls so far
    \* --- main
    main_catalog,   \* the rows of the synced catalog
    main_bucket,    \* the results files in the bucket
    main_disk,      \* the results files on disk
    main_pc,        \* the stage main is in
    main_idx,       \* position in the loop of that stage
    main_analysed,  \* rows the analysis was started for
    main_saved,     \* rows whose results file was written or uploaded
    main_downloaded, \* rows whose results were asked from the bucket
    main_results,   \* the results map of load_all_results_from_aws
    main_tiled      \* rows prepare_raster_tiles_wrapper was called for

bin_vars == <<raster_src, raster_data, PA_mask, landuse_src, bins, pixel_area_km2,
              group_idx, poly_idx, views, group_results, results>>

counts_vars == <<bc_data, bc_bins, bc_out>>

finder_vars == <<gdf_adm0, adm1_file, raster_total_area_km2, pc,
                 intersections_adm0, list_of_adm0, gdf_adm1,
                 intersections_adm1, list_of_adm1>>

codes_vars == <<cgaz_gpkg, codes_before, n_runs>>

loop_vars == <<catalog, aws_results, local_results, dataset_idx, loop_pc,
               n_loop_runs, visited, had_result, computed, completed,
               completed_before>>

ready_vars == <<s3_catalog, s3_catalog_at_start, disk_catalog, s3_manifest,
                catalog_remote, catalog_local, synced_catalog, max_zoom,
                ready_pc>>

centroid_vars == <<polygon_is_valid, tolerance, max_iterations, lon, lat,
                   previous_lon, previous_lat, n_steps, centroid_pc,
                   returned_centroid>>

reproject_vars == <<rp_raster_data, rp_grid, rp_returned>>

raster_vars == <<crs, dst_crs, raster_pc, raster_results>>

tiles_vars == <<tiles_local, tiles_remote, file_paths, tiles_pc, n_tile_runs>>

transfer_vars == <<up_disk, up_bucket, down_local, down_object, last_transfer, n_transfers>>

main_vars == <<main_catalog, main_bucket, main_disk, main_pc, main_idx, main_analysed, main_saved, main_downloaded, main_results, main_tiled>>

vars == <<bin_vars, counts_vars, finder_vars, codes_vars,
          loop_vars, ready_vars, centroid_vars, reproject_vars,
          raster_vars, tiles_vars, transfer_vars, main_vars>>

\* What a step of one part of the program leaves alone.
all_but_main_vars ==
    <<bin_vars, counts_vars, finder_vars, codes_vars,
      loop_vars, ready_vars, centroid_vars, reproject_vars,
      raster_vars, tiles_vars, transfer_vars>>
all_but_transfer_vars ==
    <<bin_vars, counts_vars, finder_vars, codes_vars,
      loop_vars, ready_vars, centroid_vars, reproject_vars,
      raster_vars, tiles_vars, main_vars>>
all_but_tiles_vars ==
    <<bin_vars, counts_vars, finder_vars, codes_vars,
      loop_vars, ready_vars, centroid_vars, reproject_vars,
      raster_vars, transfer_vars, main_vars>>
all_but_raster_vars ==
    <<bin_vars, counts_vars, finder_vars, codes_vars,
      loop_vars, ready_vars, centroid_vars, reproject_vars,
      tiles_vars, transfer_vars, main_vars>>
all_but_reproject_vars ==
    <<bin_vars, counts_vars, finder_vars, codes_vars,
      loop_vars, ready_vars, centroid_vars, raster_vars,
      tiles_vars, transfer_vars, main_vars>>
all_but_centroid_vars ==
    <<bin_vars, counts_vars, finder_vars, codes_vars,
      loop_vars, ready_vars, reproject_vars, raster_vars,
      tiles_vars, transfer_vars, main_vars>>
all_but_bin_vars ==
    <<counts_vars, finder_vars, codes_vars, loop_vars,
      ready_vars, centroid_vars, reproject_vars, raster_vars,
      tiles_vars, transfer_vars, main_vars>>
all_but_counts_vars ==
    <<bin_vars, finder_vars, codes_vars, loop_vars,
      ready_vars, centroid_vars, reproject_vars, raster_vars,
      tiles_vars, transfer_vars, main_vars>>
all_but_finder_vars ==
    <<bin_vars, counts_vars, codes_vars, loop_vars,
      ready_vars, centroid_vars, reproject_vars, raster_vars,
      tiles_vars, transfer_vars, main_vars>>
all_but_codes_vars ==
    <<bin_vars, counts_vars, finder_vars, loop_vars,
      ready_vars, centroid_vars, reproject_vars, raster_vars,
      tiles_vars, transfer_vars, main_vars>>
all_but_ready_vars ==
    <<bin_vars, counts_vars, finder_vars, codes_vars,
      loop_vars, centroid_vars, reproject_vars, raster_vars,
      tiles_vars, transfer_vars, main_vars>>
all_but_loop_vars ==
    <<bin_vars, counts_vars, finder_vars, codes_vars,
      ready_vars, centroid_vars, reproject_vars, raster_vars,
      tiles_vars, transfer_vars, main_vars>>

Pixels == 1..Width
StoredValues == {NoData} \cup (1..MaxVal)
LanduseValues == {LanduseNoData} \cup (1..MaxCat)

\* ------------------------------------------------------ numpy primitives
masked_array(data, mask) == [data |-> data, mask |-> mask]

\* np.ma.masked_equal(data, value)
masked_equal(data, value) ==
    masked_array(data, [k \in DOMAIN data |-> data[k] = value])

\* np.logical_or on two boolean arrays of the same shape
logical_or(a, b) == [k \in DOMAIN a |-> a[k] \/ b[k]]

\* np.ma.getmaskarray
getmaskarray(array) == array.mask

\* np.digitize(x, bins, right = False) for one value of x: the number of
\* boundaries that are <= x (a right-sided search in the sorted boundaries).
digitize(x, bins_) == Cardinality({k \in DOMAIN bins_ : bins_[k] <= x})

\* --------------------------------------------------- clipping_and_masking
update_mask_and(array, new_mask) ==
    masked_array(array.data,
                 [k \in DOMAIN new_mask |-> array.mask[k] /\ new_mask[k]])

update_mask_replace(array, new_mask) == masked_array(array.data, new_mask)

\* update_mask(array, new_mask, operator); every call passes np.logical_or.
update_mask(array, new_mask) ==
    masked_array(array.data, logical_or(array.mask, new_mask))

array_after_update_mask_in_place(array, new_mask) ==
    masked_array(array.data, logical_or(array.mask, new_mask))

\* The array handed to update_mask, once update_mask has returned: the
\* operator builds the new mask as a new array and np.ma.masked_array wraps
\* array.data with it, nothing is written to array.
array_after_update_mask(array, new_mask) == array

\* A polygon is known by the window of the grid that its bounds cover,
\* [lo, hi], and by the set of pixels of that window that it covers.
PolygonShapes ==
    { [lo |-> lo, hi |-> hi, inside |-> s] :
        lo \in Pixels, hi \in Pixels, s \in SUBSET Pixels }

IsPolygon(p) == p.lo <= p.hi /\ p.inside \subseteq (p.lo..p.hi)

clip_raster_to_polygon_no_remask(polygon, src, nodata) ==
    LET n == polygon.hi - polygon.lo + 1
        filled == [k \in 1..n |->
                     IF (polygon.lo + k - 1) \in polygon.inside
                     THEN src[polygon.lo + k - 1] ELSE nodata]
    IN  [data |-> masked_array(filled, [k \in 1..n |-> (polygon.lo + k - 1) \notin polygon.inside]),
         transform |-> polygon.lo]

\* clip_raster_to_polygon: rasterio.mask.mask(crop = True, filled = True)
\* crops to the window of the polygon and fills the pixels the polygon does
\* not cover with nodata; the mask is then re-derived by equality with
\* nodata. The transform of the clipped raster is the offset of its window.
clip_raster_to_polygon(polygon, src, nodata) ==
    LET n == polygon.hi - polygon.lo + 1
        filled == [k \in 1..n |->
                     IF (polygon.lo + k - 1) \in polygon.inside
                     THEN src[polygon.lo + k - 1] ELSE nodata]
    IN  [data |-> masked_equal(filled, nodata), transform |-> polygon.lo]

apply_full_size_mask_to_clipped_raster_from_origin(data_clipped, transform_clipped, mask) ==
    LET clipped_mask == SubSeq(mask, 1, Len(data_clipped.data))
    IN  update_mask(data_clipped,
                    [k \in DOMAIN clipped_mask |-> clipped_mask[k] = 0])

\* apply_full_size_mask_to_clipped_raster: the window of the full grid
\* under the clipped raster is [j0, j1), the mask is sliced to it and the
\* pixels outside protected areas (mask == 0) are added to the exclusion.
apply_full_size_mask_to_clipped_raster(data_clipped, transform_clipped, mask) ==
    LET j0 == transform_clipped - 1
        j1 == j0 + Len(data_clipped.data)
        clipped_mask == SubSeq(mask, j0 + 1, j1)
    IN  update_mask(data_clipped,
                    [k \in DOMAIN clipped_mask |-> clipped_mask[k] = 0])

clip_raster_to_polygon_and_apply_PA_mask(polygon, src, nodata, mask) ==
    LET clipped == clip_raster_to_polygon(polygon, src, nodata)
    IN  <<clipped.data,
          apply_full_size_mask_to_clipped_raster(clipped.data,
                                                 clipped.transform, mask)>>

\* make_in_memory_raster(data, profile): dataset.write stores a masked
\* array with its masked pixels filled with the nodata value of the profile.
make_in_memory_raster(data, nodata) ==
    [k \in DOMAIN data.data |-> IF data.mask[k] THEN nodata ELSE data.data[k]]

\* raster_src.read(band, masked = True)
read_masked(src, nodata) == masked_equal(src, nodata)

\* landuse_src.read(1): a plain array, nothing masked
read_unmasked(src) == masked_array(src, [k \in DOMAIN src |-> FALSE])

\* A table of polygons (a GeoDataFrame) or None.
None == [is_none |-> TRUE, rows |-> <<>>]
GeoDataFrame(rows) == [is_none |-> FALSE, rows |-> rows]

\* prepare_PA_masked_raster_and_metadata: with a table, row i is clipped
\* (raster and land use) and the protected-area mask applied on top; with
\* no table the whole raster is used.
prepare_PA_masked_raster_and_metadata(polygons_GDF, i, raster_data_, src, mask, lu_src) ==
    IF ~polygons_GDF.is_none
    THEN LET polygon == polygons_GDF.rows[i]
             r == clip_raster_to_polygon_and_apply_PA_mask(
                      polygon.geometry, src, NoData, mask)
             l == clip_raster_to_polygon_and_apply_PA_mask(
                      polygon.geometry, lu_src, LanduseNoData, mask)
         IN  [raster_data |-> r[1],
              raster_data_masked |-> r[2],
              polygon_id |-> polygon.id,
              landuse_data |-> l[1]]
    ELSE [raster_data |-> raster_data_,
          raster_data_masked |->
              update_mask(raster_data_,
                          [k \in DOMAIN mask |-> mask[k] = 0]),
          polygon_id |-> "whole",
          landuse_data |-> read_unmasked(lu_src)]

\* ------------------------------------------------------------- do_binning
get_bin_counts_no_remask(data_with_mask, bins_) ==
    LET binned == masked_array(
            [k \in DOMAIN data_with_mask.data |->
                digitize(data_with_mask.data[k], bins_)],
            [k \in DOMAIN data_with_mask.data |-> FALSE])
    IN  [counts_by_bin |->
            [i \in 1..(Len(bins_) - 1) |->
                Cardinality({k \in DOMAIN binned.data : binned.data[k] = i})],
         binned |-> binned]

get_bin_counts_right_closed(data_with_mask, bins_) ==
    LET binned == masked_array(
            [k \in DOMAIN data_with_mask.data |->
                Cardinality({j \in DOMAIN bins_ :
                                bins_[j] < data_with_mask.data[k]})],
            data_with_mask.mask)
    IN  [counts_by_bin |->
            [i \in 1..(Len(bins_) - 1) |->
                Cardinality({k \in DOMAIN binned.data :
                                binned.data[k] = i /\ ~binned.mask[k]})],
         binned |-> binned]

get_bin_counts_cumulative(data_with_mask, bins_) ==
    LET binned == masked_array(
            [k \in DOMAIN data_with_mask.data |->
                digitize(data_with_mask.data[k], bins_)],
            data_with_mask.mask)
    IN  [counts_by_bin |->
            [i \in 1..(Len(bins_) - 1) |->
                Cardinality({k \in DOMAIN binned.data :
                                binned.data[k] >= i /\ ~binned.mask[k]})],
         binned |-> binned]

\* get_bin_counts: digitize the stored values, re-apply the mask, and count
\* for i = 1 .. len(bins) - 1 the unmasked pixels whose bin index is i.
get_bin_counts(data_with_mask, bins_) ==
    LET binned == masked_array(
            [k \in DOMAIN data_with_mask.data |->
                digitize(data_with_mask.data[k], bins_)],
            data_with_mask.mask)
    IN  [counts_by_bin |->
            [i \in 1..(Len(bins_) - 1) |->
                Cardinality({k \in DOMAIN binned.data :
                                binned.data[k] = i /\ ~binned.mask[k]})],
         binned |-> binned]

count_binned_by_category_own_mask(binned, category, multiplier) ==
    LET valid == {k \in DOMAIN binned.data : ~getmaskarray(category)[k]}
        unique == {category.data[k] : k \in valid}
    IN  [cat_val \in unique |->
            [i \in 1..NLanduseBins |->
                multiplier * Cardinality({k \in valid :
                    category.data[k] = cat_val /\ binned.data[k] = i})]]

\* count_binned_by_category: among the pixels unmasked in both arrays, for
\* every category value present, the number of pixels in each of the bins
\* 1..4, times the multiplier.
count_binned_by_category(binned, category, multiplier) ==
    LET combined_mask == logical_or(getmaskarray(binned),
                                    getmaskarray(category))
        valid == {k \in DOMAIN combined_mask : ~combined_mask[k]}
        unique == {category.data[k] : k \in valid}
    IN  [cat_val \in unique |->
            [i \in 1..NLanduseBins |->
                multiplier * Cardinality({k \in valid :
                    category.data[k] = cat_val /\ binned.data[k] = i})]]

get_bin_counts_wrapper_independent(data, data_PA, landuse_data, bins_, pixel_area) ==
    LET all == get_bin_counts(data, bins_)
        in_PA == get_bin_counts(data_PA, bins_)
        n == Len(bins_) - 1
        not_PA == get_bin_counts(
                    masked_array(data.data,
                        [k \in DOMAIN data.data |-> ~data_PA.mask[k]]), bins_)
    IN  [area_km2_by_bin |->
            [i \in 1..n |-> all.counts_by_bin[i] * pixel_area],
         area_km2_by_bin_in_PA |->
            [i \in 1..n |-> in_PA.counts_by_bin[i] * pixel_area],
         area_km2_by_bin_not_in_PA |->
            [i \in 1..n |-> not_PA.counts_by_bin[i] * pixel_area],
         area_km2_by_landuse_and_bin |->
            count_binned_by_category(all.binned, landuse_data, pixel_area)]

\* get_bin_counts_wrapper: the Binned Area Record of one polygon.
get_bin_counts_wrapper(data, data_PA, landuse_data, bins_, pixel_area) ==
    LET all == get_bin_counts(data, bins_)
        in_PA == get_bin_counts(data_PA, bins_)
        n == Len(bins_) - 1
        counts_by_bin_not_in_PA ==
            [i \in 1..n |-> all.counts_by_bin[i] - in_PA.counts_by_bin[i]]
    IN  [area_km2_by_bin |->
            [i \in 1..n |-> all.counts_by_bin[i] * pixel_area],
         area_km2_by_bin_in_PA |->
            [i \in 1..n |-> in_PA.counts_by_bin[i] * pixel_area],
         area_km2_by_bin_not_in_PA |->
            [i \in 1..n |-> counts_by_bin_not_in_PA[i] * pixel_area],
         area_km2_by_landuse_and_bin |->
            count_binned_by_category(all.binned, landuse_data, pixel_area)]

\* bin_raster_for_one_polygon: the views of the raster for row i of the
\* table (or for the whole raster) and the record computed from them.
\* The full raster in memory once prepare_PA_masked_raster_and_metadata has
\* returned: with a table the raster is read from raster_src and the array
\* is not used; with no table the array goes through update_mask.
raster_data_after_prepare(polygons_GDF, raster_data_, mask) ==
    IF ~polygons_GDF.is_none THEN raster_data_
    ELSE array_after_update_mask(raster_data_,
                                 [k \in DOMAIN mask |-> mask[k] = 0])

bin_raster_for_one_polygon(polygons_GDF, i, raster_data_, src, mask, lu_src, bins_, pixel_area) ==
    LET v == prepare_PA_masked_raster_and_metadata(polygons_GDF, i,
                 raster_data_, src, mask, lu_src)
    IN  [polygon_id |-> v.polygon_id,
         record |-> get_bin_counts_wrapper(v.raster_data,
                        v.raster_data_masked, v.landuse_data, bins_,
                        pixel_area),
         views |-> v]

\* ------------------------------------------------- process_SDM_rasters
\* The unmasked values of the raster (masked_array.compressed()).
compressed(src) == {k \in DOMAIN src : src[k] # NoData}

\* raster_summary['max']
raster_max(src) ==
    CHOOSE m \in {src[k] : k \in compressed(src)} :
        \A k \in compressed(src) : src[k] <= m

\* The k-th smallest of the unmasked values, k = 1 .. n.
kth_smallest(src, k) ==
    CHOOSE v \in {src[j] : j \in compressed(src)} :
        /\ Cardinality({j \in compressed(src) : src[j] < v}) < k
        /\ k <= Cardinality({j \in compressed(src) : src[j] <= v})

\* get_raster_percentile(path, 99.0) times 100: np.percentile interpolates
\* linearly between the two values around position 0.99 * (n - 1).
percentile_99_times_100(src) ==
    LET n == Cardinality(compressed(src))
        lower == (99 * (n - 1)) \div 100
        frac == (99 * (n - 1)) % 100
        v_lower == kth_smallest(src, lower + 1)
        v_upper == IF lower + 2 <= n THEN kth_smallest(src, lower + 2)
                   ELSE v_lower
    IN  100 * v_lower + frac * (v_upper - v_lower)

\* The bins of find_intersections_and_do_binning_for_one_raster:
\* [0, 0.25, 0.5, 0.75, 1.0] * p99 cast to the type of the raster (integers
\* here: truncation), with the last boundary replaced by the raster maximum.
\* p99_times_100 is the 99th percentile in hundredths.
bins_of(p99_times_100, max) ==
    <<0, p99_times_100 \div 400, (2 * p99_times_100) \div 400,
      (3 * p99_times_100) \div 400, max>>

make_bins(src) == bins_of(percentile_99_times_100(src), raster_max(src))

\* ------------------------------------------------ the polygons of a run
RECURSIVE SetToSeq(_)
SetToSeq(S) ==
    IF S = {} THEN <<>>
    ELSE LET x == CHOOSE y \in S : TRUE IN <<x>> \o SetToSeq(S \ {x})

\* Countries: polygons that cover every pixel of their window.
CountryShapes ==
    {p \in PolygonShapes : IsPolygon(p) /\ p.inside = p.lo..p.hi}

\* Admin-1 zones: polygons whose bounds span the grid and which leave some
\* pixel of it uncovered (possibly all of them).
Adm1Shapes ==
    {p \in PolygonShapes : p.lo = 1 /\ p.hi = Width /\ p.inside # Pixels}

Table(prefix, shapes) ==
    LET seq == SetToSeq(shapes)
    IN  GeoDataFrame([k \in 1..Len(seq) |->
            [id |-> prefix \o ToString(k), geometry |-> seq[k]]])

CountryTable == Table("C", CountryShapes)
Adm1Table == Table("Z", Adm1Shapes)

\* dict_of_polygon_GDFs, in the order of its keys.
polygon_group_names == <<"whole", "country", "adm1-zone">>

dict_of_polygon_GDFs ==
    [name \in {"whole", "country", "adm1-zone"} |->
        CASE name = "whole" -> None
          [] name = "country" -> CountryTable
          [] name = "adm1-zone" -> Adm1Table]

\* n_polys of bin_raster_for_one_polygon_group
n_polys(polygons_GDF) ==
    IF polygons_GDF.is_none THEN 1 ELSE Len(polygons_GDF.rows)

\* ----------------------------------------------------------- the pipeline
\* Land-use rasters: one category everywhere (or no data everywhere), or
\* the categories and no-data in stripes.
LanduseRasters ==
    {[p \in Pixels |-> c] : c \in LanduseValues} \cup
    {[p \in Pixels |->
        IF (p + s) % (MaxCat + 1) = 0 THEN LanduseNoData
        ELSE (p + s) % (MaxCat + 1)] : s \in 0..MaxCat}

NoViews ==
    [raster_data |-> masked_array(<<>>, <<>>),
     raster_data_masked |-> masked_array(<<>>, <<>>),
     polygon_id |-> "",
     landuse_data |-> masked_array(<<>>, <<>>)]

NotRun == [done |-> FALSE, counts_by_bin |-> <<>>,
           binned |-> masked_array(<<>>, <<>>)]

PipelineIdle ==
    /\ raster_src = <<>> /\ PA_mask = <<>> /\ landuse_src = <<>>
    /\ raster_data = masked_array(<<>>, <<>>)
    /\ bins = <<>> /\ pixel_area_km2 = 0
    /\ group_idx = 0 /\ poly_idx = 0
    /\ views = NoViews /\ group_results = <<>> /\ results = <<>>

CountsIdle ==
    /\ bc_data = masked_array(<<>>, <<>>) /\ bc_bins = <<>> /\ bc_out = NotRun

\* A raster with at least one valid pixel (summarise_raster and
\* get_raster_percentile raise on a raster without any), its protected-area
\* mask and its land-use raster on the same grid; the bins are those
\* find_intersections_and_do_binning_for_one_raster derives from the raster.
PipelineInit ==
    /\ raster_src \in [Pixels -> StoredValues]
    /\ compressed(raster_src) # {}
    /\ raster_data = read_masked(raster_src, NoData)
    /\ PA_mask \in [Pixels -> {0, 1}]
    /\ landuse_src \in LanduseRasters
    /\ pixel_area_km2 = PixelArea
    /\ bins = make_bins(raster_src)
    /\ group_idx = 1
    /\ poly_idx = 1
    /\ views = NoViews
    /\ group_results = <<>>
    /\ results = <<>>

FinderIdle ==
    /\ gdf_adm0 = <<>> /\ adm1_file = <<>> /\ raster_total_area_km2 = 0
    /\ pc = "idle"
    /\ intersections_adm0 = <<>> /\ list_of_adm0 = <<>> /\ gdf_adm1 = <<>>
    /\ intersections_adm1 = <<>> /\ list_of_adm1 = <<>>

CodesIdle == cgaz_gpkg = <<>> /\ codes_before = <<>> /\ n_runs = 0

LoopIdle ==
    /\ catalog = <<>> /\ aws_results = <<>> /\ local_results = <<>>
    /\ dataset_idx = 0 /\ loop_pc = "idle" /\ n_loop_runs = 0
    /\ visited = {} /\ had_result = {} /\ computed = {} /\ completed = {}
    /\ completed_before = {}

ReadyIdle ==
    /\ s3_catalog = <<>> /\ s3_catalog_at_start = <<>> /\ disk_catalog = <<>>
    /\ s3_manifest = <<>> /\ catalog_remote = <<>> /\ catalog_local = <<>>
    /\ synced_catalog = <<>> /\ max_zoom = 0 /\ ready_pc = "idle"

CentroidIdle ==
    /\ polygon_is_valid = FALSE /\ tolerance = 0 /\ max_iterations = 0
    /\ lon = 0 /\ lat = 0 /\ previous_lon = 0 /\ previous_lat = 0
    /\ n_steps = 0 /\ centroid_pc = "idle" /\ returned_centroid = <<>>

ReprojectIdle ==
    /\ rp_raster_data = <<>> /\ rp_grid = <<>> /\ rp_returned = <<>>

RasterIdle ==
    /\ crs = "" /\ dst_crs = "" /\ raster_pc = "idle" /\ raster_results = <<>>

TilesIdle ==
    /\ tiles_local = {} /\ tiles_remote = {} /\ file_paths = <<>>
    /\ tiles_pc = "idle" /\ n_tile_runs = 0

TransferIdle ==
    /\ up_disk = <<>> /\ up_bucket = <<>> /\ down_local = <<>>
    /\ down_object = <<>> /\ last_transfer = <<>> /\ n_transfers = 0

MainIdle ==
    /\ main_catalog = <<>> /\ main_bucket = <<>> /\ main_disk = <<>>
    /\ main_pc = "idle" /\ main_idx = 0
    /\ main_analysed = {} /\ main_saved = {} /\ main_downloaded = {}
    /\ main_results = <<>> /\ main_tiled = {}

Init ==
    /\ PipelineInit /\ CountsIdle /\ FinderIdle /\ CodesIdle /\ LoopIdle
    /\ ReadyIdle
    /\ CentroidIdle
    /\ ReprojectIdle
    /\ RasterIdle
    /\ TilesIdle
    /\ TransferIdle
    /\ MainIdle

\* One pass of the loop of bin_raster_for_one_polygon_group; after the last
\* polygon of a group the group's records are stored under the group's
\* name (bin_raster_for_all_polygon_groups) and the next group begins.
BinOnePolygon ==
    /\ group_idx <= Len(polygon_group_names)
    /\ LET name == polygon_group_names[group_idx]
           gdf == dict_of_polygon_GDFs[name]
           out == bin_raster_for_one_polygon(gdf, poly_idx, raster_data,
                      raster_src, PA_mask, landuse_src, bins, pixel_area_km2)
           \* dict[polygon_id] = record: a record of the same id is replaced
           stored == [id \in DOMAIN group_results \cup {out.polygon_id} |->
                        IF id = out.polygon_id THEN out.record
                        ELSE group_results[id]]
       IN  /\ views' = out.views
           /\ raster_data' = raster_data_after_prepare(gdf, raster_data,
                                                       PA_mask)
           /\ IF poly_idx < n_polys(gdf)
              THEN /\ group_results' = stored
                   /\ poly_idx' = poly_idx + 1
                   /\ UNCHANGED <<group_idx, results>>
              ELSE /\ results' = results @@ (name :> stored)
                   /\ group_results' = <<>>
                   /\ poly_idx' = 1
                   /\ group_idx' = group_idx + 1
    /\ UNCHANGED <<raster_src, PA_mask, landuse_src, bins, pixel_area_km2>>
    /\ UNCHANGED all_but_bin_vars

Next == BinOnePolygon

Spec == Init /\ [][Next]_vars

\* ------------------------------------------------ get_bin_counts on its own
\* Values around and inside the bins, under any mask; bins as
\* find_intersections_and_do_binning_for_one_raster builds them from a 99th
\* percentile p and a maximum m >= p (p = m = 4 gives the quarter points
\* 0, 1, 2, 3, 4 of [0.0, 0.25, 0.50, 0.75, 1.0]).
BinValues == (-1)..(MaxVal + 1)

CountsInit ==
    /\ bc_data \in {masked_array(d, m) :
                        d \in [Pixels -> BinValues], m \in [Pixels -> BOOLEAN]}
    /\ bc_bins \in {bins_of(100 * p, m) :
                        p \in 0..(MaxVal + 1), m \in 0..(MaxVal + 1)}
    /\ bc_bins[Len(bc_bins) - 1] <= bc_bins[Len(bc_bins)]
    /\ bc_out = NotRun

InitBin ==
    /\ PipelineIdle /\ CountsInit /\ FinderIdle /\ CodesIdle /\ LoopIdle
    /\ ReadyIdle
    /\ CentroidIdle
    /\ ReprojectIdle
    /\ RasterIdle
    /\ TilesIdle
    /\ TransferIdle
    /\ MainIdle

GetBinCounts ==
    /\ ~bc_out.done
    /\ LET out == get_bin_counts(bc_data, bc_bins)
       IN  bc_out' = [done |-> TRUE, counts_by_bin |-> out.counts_by_bin,
                      binned |-> out.binned]
    /\ UNCHANGED <<bc_data, bc_bins>>
    /\ UNCHANGED all_but_counts_vars

NextBin == GetBinCounts

SpecBin == InitBin /\ [][NextBin]_vars

\* ------------------------------- find_polygon_intersections_with_raster
\* Shapely geometries: a Polygon has an area, a multi-part geometry has
\* members; lines and points have no area.
Polygon(a) == [type |-> "Polygon", area |-> a, geoms |-> <<>>]
LineString == [type |-> "LineString", area |-> 0, geoms |-> <<>>]
Point == [type |-> "Point", area |-> 0, geoms |-> <<>>]
MultiPolygon(polygons) ==
    [type |-> "MultiPolygon", area |-> 0, geoms |-> polygons]
GeometryCollection(geoms) ==
    [type |-> "GeometryCollection", area |-> 0, geoms |-> geoms]

\* geometry.is_empty
is_empty(geom) ==
    geom.type \in {"MultiPolygon", "GeometryCollection"} /\ geom.geoms = <<>>

isinstance(geom, type) == geom.type = type

\* geometry.area
RECURSIVE geometry_area(_)
RECURSIVE sum_of_areas(_)
geometry_area(geom) ==
    IF geom.type = "Polygon" THEN geom.area
    ELSE IF geom.type \in {"MultiPolygon", "GeometryCollection"}
    THEN sum_of_areas(geom.geoms)
    ELSE 0
sum_of_areas(geoms) ==
    IF geoms = <<>> THEN 0
    ELSE geometry_area(Head(geoms)) + sum_of_areas(Tail(geoms))

RECURSIVE polygons_of_collection_keep_all(_)
polygons_of_collection_keep_all(geoms) ==
    IF geoms = <<>> THEN <<>>
    ELSE LET geom == Head(geoms)
         IN  (IF isinstance(geom, "MultiPolygon") THEN geom.geoms
              ELSE <<geom>>)
             \o polygons_of_collection_keep_all(Tail(geoms))

\* The loop of geometryCollection_to_multipolygon: the Polygons of the
\* collection and the Polygons of its MultiPolygons, in order; every other
\* member is skipped.
RECURSIVE polygons_of_collection(_)
polygons_of_collection(geoms) ==
    IF geoms = <<>> THEN <<>>
    ELSE LET geom == Head(geoms)
         IN  (IF isinstance(geom, "Polygon") THEN <<geom>>
              ELSE IF isinstance(geom, "MultiPolygon") THEN geom.geoms
              ELSE <<>>)
             \o polygons_of_collection(Tail(geoms))

\* geometryCollection_to_multipolygon: raises ValueError when the input is
\* no GeometryCollection or holds no polygon.
geometryCollection_to_multipolygon(geom_collection) ==
    LET polygons == polygons_of_collection(geom_collection.geoms)
    IN  IF ~isinstance(geom_collection, "GeometryCollection")
           \/ polygons = <<>>
        THEN [error |-> TRUE, geometry |-> MultiPolygon(<<>>)]
        ELSE [error |-> FALSE, geometry |-> MultiPolygon(polygons)]

\* find_intersection_between_one_polygon_and_raster. A row of the polygon
\* table carries its geometry, its attributes and the value of
\* polygon.geometry.intersection(raster_geom). The outcome is no row (empty
\* intersection), a row, or an error (ValueError, or the failed assertion).
find_intersection_between_one_polygon_and_raster(polygon, cols_to_keep) ==
    LET intersection == polygon.intersection
        tidy == IF isinstance(intersection, "GeometryCollection")
                THEN geometryCollection_to_multipolygon(intersection)
                ELSE [error |-> ~(isinstance(intersection, "MultiPolygon")
                                  \/ isinstance(intersection, "Polygon")),
                      geometry |-> intersection]
    IN  IF is_empty(intersection)
        THEN [status |-> "none", data_to_store |-> <<>>]
        ELSE IF tidy.error
        THEN [status |-> "error", data_to_store |-> <<>>]
        ELSE [status |-> "row",
              data_to_store |->
                 [original_poly_geometry |-> polygon.geometry,
                  geometry |-> tidy.geometry,
                  attrs |-> [col \in cols_to_keep |-> polygon.attrs[col]]]]

\* find_intersection_regions_between_polygons_and_raster: the rows of the
\* polygons with a non-empty intersection, in the order of the table; an
\* error of any polygon ends the loop.
RECURSIVE find_intersection_regions_between_polygons_and_raster(_, _)
find_intersection_regions_between_polygons_and_raster(polygons, cols_to_keep) ==
    IF polygons = <<>> THEN [error |-> FALSE, rows |-> <<>>]
    ELSE LET one == find_intersection_between_one_polygon_and_raster(
                        Head(polygons), cols_to_keep)
             rest == find_intersection_regions_between_polygons_and_raster(
                        Tail(polygons), cols_to_keep)
         IN  IF one.status = "error" \/ rest.error
             THEN [error |-> TRUE, rows |-> <<>>]
             ELSE IF one.status = "none" THEN rest
             ELSE [error |-> FALSE, rows |-> <<one.data_to_store>> \o rest.rows]

\* A fraction num / den, and fraction < fraction for positive denominators.
Fraction(num, den) == [num |-> num, den |-> den]
less_than(f, g) == f.num * g.den < g.num * f.den

\* The area columns of get_intersection_area_summary_values, for one row.
with_area_columns(raster_area, row) ==
    LET a == geometry_area(row.geometry)
        b == geometry_area(row.original_poly_geometry)
    IN  [original_poly_geometry |-> row.original_poly_geometry,
         geometry |-> row.geometry,
         attrs |-> row.attrs,
         area_of_intersection_km2 |-> a,
         area_of_original_poly_km2 |-> b,
         frac_of_raster |-> Fraction(a, raster_area),
         frac_of_original_poly |-> Fraction(a, b)]

\* The orders sort_values(by, ascending = False) can leave n rows in: every
\* arrangement with the column descending (the sort is not stable, so rows
\* with equal values come in any order).
Arrangements(n) ==
    {f \in [1..n -> 1..n] : \A i, j \in 1..n : i # j => f[i] # f[j]}

sort_values_ascending(rows) ==
    {[k \in 1..Len(rows) |-> rows[f[k]]] : f \in
        {g \in Arrangements(Len(rows)) :
            \A i \in 1..(Len(rows) - 1) :
                rows[g[i]].area_of_intersection_km2
                    <= rows[g[i + 1]].area_of_intersection_km2}}

sort_values_descending(rows) ==
    {[k \in 1..Len(rows) |-> rows[f[k]]] : f \in
        {g \in Arrangements(Len(rows)) :
            \A i \in 1..(Len(rows) - 1) :
                rows[g[i]].area_of_intersection_km2
                    >= rows[g[i + 1]].area_of_intersection_km2}}

\* get_intersection_area_summary_values: the tables it can return.
get_intersection_area_summary_values(raster_area, intersections) ==
    sort_values_descending(
        [k \in 1..Len(intersections) |->
            with_area_columns(raster_area, intersections[k])])

\* thresh_poly_frac = 0.01; the source compares both fractions with it
\* (thresh_raster_frac has the same value and is not used).
thresh_poly_frac == Fraction(1, 100)

discard_if_either(row) ==
    \/ less_than(row.frac_of_original_poly, thresh_poly_frac)
    \/ less_than(row.frac_of_raster, thresh_poly_frac)

\* The 'discard' column of apply_thresholds_to_discard_intersection_areas.
discard(row) ==
    /\ less_than(row.frac_of_original_poly, thresh_poly_frac)
    /\ less_than(row.frac_of_raster, thresh_poly_frac)

\* intersections[~intersections['discard']]
drop_discarded(intersections) ==
    SelectSeq(intersections, LAMBDA row : ~discard(row))

\* find_which_polygons_intersect_raster: the outcomes it can have. With no
\* intersecting polygon the table has no geometry column and the area
\* computation raises.
find_which_polygons_intersect_raster(polygons, raster_area, cols_to_keep) ==
    LET found == find_intersection_regions_between_polygons_and_raster(
                    polygons, cols_to_keep)
    IN  IF found.error \/ found.rows = <<>>
        THEN {[error |-> TRUE, rows |-> <<>>]}
        ELSE {[error |-> FALSE, rows |-> drop_discarded(t)] :
                t \in get_intersection_area_summary_values(raster_area,
                                                           found.rows)}

load_gpkg_unfiltered(gpkg, filter_field, allowed_list) == gpkg

\* load_gpkg_filtered_by_list_as_gdf: SELECT * WHERE filter_field IN (list)
load_gpkg_filtered_by_list_as_gdf(gpkg, filter_field, allowed_list) ==
    SelectSeq(gpkg, LAMBDA row :
        \E k \in DOMAIN allowed_list : row.attrs[filter_field] = allowed_list[k])

\* The ISO3 code of country k and the code of its admin-1 zone; codes sort
\* in the order of k.
iso3(k) == "ISO" \o ToString(k)
adm1_code(k) == iso3(k) \o "_001"

\* sorted(list(column.unique())) for a column of codes.
sorted_unique(codes, all_codes_in_order) ==
    SelectSeq(all_codes_in_order,
              LAMBDA c : \E k \in DOMAIN codes : codes[k] = c)

column(rows, col) == [k \in DOMAIN rows |-> rows[k].attrs[col]]

\* ------------------------------------------- the intersection finder runs
\* What one candidate polygon contributes: its own area and its intersection
\* with the outline of the raster (areas in km2).
Candidate(a, geom) == [area |-> a, intersection |-> geom]

CountryCandidates ==
    { Candidate(1000, GeometryCollection(<<>>)),
      Candidate(11000, Polygon(99)),
      Candidate(1000, Polygon(10)),
      Candidate(1000, Polygon(11)),
      Candidate(2000, Polygon(11)),
      Candidate(1000, MultiPolygon(<<Polygon(9), Polygon(2)>>)),
      Candidate(1000, GeometryCollection(
          <<LineString, Polygon(9), MultiPolygon(<<Polygon(1), Polygon(1)>>)>>)),
      Candidate(1000, GeometryCollection(<<LineString, Point>>)),
      Candidate(1000, LineString) }

Adm1Candidates ==
    { Candidate(1000, GeometryCollection(<<>>)),
      Candidate(1000, Polygon(9)),
      Candidate(1000, Polygon(11)),
      Candidate(1000, LineString) }

RasterAreas == {1000, 11000}

\* A row of the admin-0 file (gpd.read_file(path_adm0)).
adm0_row(k, c) ==
    [geometry |-> Polygon(c.area),
     intersection |-> c.intersection,
     attrs |-> [name |-> "Country" \o ToString(k), iso3 |-> iso3(k)]]

\* A row of the admin-1 file: the zone of country k.
adm1_row(k, c) ==
    [geometry |-> Polygon(c.area),
     intersection |-> c.intersection,
     attrs |-> [name |-> "Zone" \o ToString(k), adm0_iso3 |-> iso3(k),
                adm1_code |-> adm1_code(k)]]

all_iso3 == [k \in 1..NCountries |-> iso3(k)]
all_adm1_codes == [k \in 1..NCountries |-> adm1_code(k)]

FinderInit ==
    /\ \E cs \in [1..NCountries -> CountryCandidates] :
          gdf_adm0 = [k \in 1..NCountries |-> adm0_row(k, cs[k])]
    /\ \E zs \in [1..NCountries -> Adm1Candidates] :
          adm1_file = [k \in 1..NCountries |-> adm1_row(k, zs[k])]
    /\ raster_total_area_km2 \in RasterAreas
    /\ pc = "start"
    /\ intersections_adm0 = <<>> /\ list_of_adm0 = <<>> /\ gdf_adm1 = <<>>
    /\ intersections_adm1 = <<>> /\ list_of_adm1 = <<>>

InitIntersect ==
    /\ PipelineIdle /\ CountsIdle /\ FinderInit /\ CodesIdle /\ LoopIdle
    /\ ReadyIdle
    /\ CentroidIdle
    /\ ReprojectIdle
    /\ RasterIdle
    /\ TilesIdle
    /\ TransferIdle
    /\ MainIdle

\* find_which_polygons_intersect_raster_wrapper, the country pass. An error
\* leaves the wrapper: nothing is returned.
FindAdm0 ==
    /\ pc = "start"
    /\ \E out \in find_which_polygons_intersect_raster(
                      gdf_adm0, raster_total_area_km2, {"name", "iso3"}) :
          IF out.error
          THEN /\ pc' = "error"
               /\ UNCHANGED <<intersections_adm0, list_of_adm0>>
          ELSE /\ pc' = "adm1"
               /\ intersections_adm0' = out.rows
               /\ list_of_adm0' = sorted_unique(column(out.rows, "iso3"),
                                                all_iso3)
    /\ UNCHANGED <<gdf_adm0, adm1_file, raster_total_area_km2, gdf_adm1,
                   intersections_adm1, list_of_adm1>>
    /\ UNCHANGED all_but_finder_vars

\* find_which_polygons_intersect_raster_wrapper, the admin-1 pass: load the
\* zones of the countries in list_of_adm0, then intersect them. An error
\* leaves the wrapper with nothing returned, the country table included.
FindAdm1 ==
    /\ pc = "adm1"
    /\ LET loaded == load_gpkg_filtered_by_list_as_gdf(
                         adm1_file, "adm0_iso3", list_of_adm0)
       IN  \E out \in find_which_polygons_intersect_raster(
                          loaded, raster_total_area_km2,
                          {"name", "adm0_iso3", "adm1_code"}) :
              IF out.error
              THEN /\ pc' = "error"
                   /\ intersections_adm0' = <<>>
                   /\ list_of_adm0' = <<>>
                   /\ gdf_adm1' = <<>>
                   /\ UNCHANGED <<intersections_adm1, list_of_adm1>>
              ELSE /\ pc' = "done"
                   /\ gdf_adm1' = loaded
                   /\ intersections_adm1' = out.rows
                   /\ list_of_adm1' = sorted_unique(
                          column(out.rows, "adm1_code"), all_adm1_codes)
                   /\ UNCHANGED <<intersections_adm0, list_of_adm0>>
    /\ UNCHANGED <<gdf_adm0, adm1_file, raster_total_area_km2>>
    /\ UNCHANGED all_but_finder_vars

NextIntersect == FindAdm0 \/ FindAdm1

SpecIntersect == InitIntersect /\ [][NextIntersect]_vars

\* ------------------------------------------------- add_index_to_cgaz_adm1
\* Most rows the layer can hold, and most runs of the script in a row.
MaxZones == 3
MaxRuns == 2

\* The values of the columns adm0_iso3 and name, in ascending order.
Iso3Codes == <<"CAN", "USA">>
ZoneNames == <<"Alabama", "Alaska">>

position_in(seq, x) == CHOOSE k \in DOMAIN seq : seq[k] = x

\* str.zfill
RECURSIVE zfill(_, _)
zfill(str, width) ==
    IF Len(str) >= width THEN str ELSE zfill("0" \o str, width)

\* f"{adm0_iso3}_{str(i+1).zfill(3)}"
format_code(adm0_iso3, i) == adm0_iso3 \o "_" \o zfill(ToString(i + 1), 3)

\* gpd.read_file: the rows of the layer, with a fresh RangeIndex.
read_file(layer) ==
    [k \in DOMAIN layer |-> [layer[k] EXCEPT !.index = k - 1]]

\* The group of a key in gdf.groupby('adm0_iso3'): its rows, in their order.
get_group(gdf, adm0_iso3) ==
    SelectSeq(gdf, LAMBDA row : row.adm0_iso3 = adm0_iso3)

index_of(gdf) == [k \in DOMAIN gdf |-> gdf[k].index]

\* group.sort_values('name'): the orders it can leave the rows in (the
\* default sort is not stable, so rows of equal name come in any order).
sort_values_by_name(group) ==
    {[k \in 1..Len(group) |-> group[f[k]]] : f \in
        {g \in Arrangements(Len(group)) :
            \A i \in 1..(Len(group) - 1) :
                position_in(ZoneNames, group[g[i]].name)
                    <= position_in(ZoneNames, group[g[i + 1]].name)}}

\* The loop of groupby(...).apply over the groups, in ascending order of key:
\* the results laid end to end, and whether some result is indexed otherwise
\* than its group.
RECURSIVE apply_groupwise(_, _)
apply_groupwise(keys, gdf) ==
    IF keys = <<>> THEN {[values |-> <<>>, mutated |-> FALSE]}
    ELSE LET group == get_group(gdf, Head(keys))
         IN  {[values |-> res \o rest.values,
               mutated |-> (index_of(res) # index_of(group)) \/ rest.mutated] :
                 res \in sort_values_by_name(group),
                 rest \in apply_groupwise(Tail(keys), gdf)}

\* result.reindex(ax): the rows in the order of the index labels ax.
reindex(result, ax) ==
    [k \in DOMAIN ax |->
        result[CHOOSE j \in DOMAIN result : result[j].index = ax[k]]]

\* gdf.groupby('adm0_iso3', group_keys=False).apply(sort by name): when every
\* result is indexed like its group, pandas takes the function for a
\* transformation and puts the rows back in the order of gdf.
groupby_apply(gdf) ==
    {IF applied.mutated THEN applied.values
     ELSE reindex(applied.values, index_of(gdf)) :
        applied \in apply_groupwise(Iso3Codes, gdf)}

\* .reset_index(drop=True)
reset_index(gdf) == [k \in DOMAIN gdf |-> [gdf[k] EXCEPT !.index = k - 1]]

\* The list assigned to gdf_sorted['adm1_code']: for each group, in
\* ascending order of key, one code per row of the group.
RECURSIVE list_of_codes(_, _)
list_of_codes(keys, gdf_sorted) ==
    IF keys = <<>> THEN <<>>
    ELSE [i \in 1..Len(get_group(gdf_sorted, Head(keys))) |->
              format_code(Head(keys), i - 1)]
         \o list_of_codes(Tail(keys), gdf_sorted)

\* The layers main() can write for a layer it reads.
main_writes(layer) ==
    {LET gdf_sorted == reset_index(applied)
         codes == list_of_codes(Iso3Codes, gdf_sorted)
     IN  [k \in DOMAIN gdf_sorted |->
             [gdf_sorted[k] EXCEPT !.adm1_code = codes[k]]] :
        applied \in groupby_apply(read_file(layer))}

\* The layer before the first run: up to MaxZones zones, each with a country,
\* a name, and its own geometry; no adm1_code yet.
CodesInit ==
    /\ \E n \in 1..MaxZones :
       \E isos \in [1..n -> 1..Len(Iso3Codes)] :
       \E names \in [1..n -> 1..Len(ZoneNames)] :
          cgaz_gpkg = [k \in 1..n |->
                          [index |-> k - 1,
                           adm0_iso3 |-> Iso3Codes[isos[k]],
                           name |-> ZoneNames[names[k]],
                           geometry |-> k,
                           adm1_code |-> ""]]
    /\ codes_before = <<>>
    /\ n_runs = 0

InitCodes ==
    /\ PipelineIdle /\ CountsIdle /\ FinderIdle /\ CodesInit /\ LoopIdle
    /\ ReadyIdle
    /\ CentroidIdle
    /\ ReprojectIdle
    /\ RasterIdle
    /\ TilesIdle
    /\ TransferIdle
    /\ MainIdle

\* One run of the script on the file; codes_before remembers, by geometry,
\* the code each zone had in the file the run read.
Main ==
    /\ n_runs < MaxRuns
    /\ cgaz_gpkg' \in main_writes(cgaz_gpkg)
    /\ codes_before' =
          [g \in {cgaz_gpkg[k].geometry : k \in DOMAIN cgaz_gpkg} |->
              cgaz_gpkg[CHOOSE k \in DOMAIN cgaz_gpkg :
                            cgaz_gpkg[k].geometry = g].adm1_code]
    /\ n_runs' = n_runs + 1
    /\ UNCHANGED all_but_codes_vars

NextCodes == Main

SpecCodes == InitCodes /\ [][NextCodes]_vars

\* ---------------------- find_intersections_and_do_binning_for_all_rasters
\* Number of datasets in the catalog, and number of runs of the program.
NDatasets == 2
MaxLoopRuns == 2

\* A results file is <<>> when it does not exist and <<k>> when it holds the
\* results computed in run k (<<0>>: results from before the first run).
NoFile == <<>>
File(k) == <<k>>
exists(file) == file # NoFile

\* check_if_file_exists_on_aws: head_object answers, or fails with an error
\* other than 404, which is logged and reported as False.
check_if_file_exists_on_aws(bucket, key, head_object_answers) ==
    IF head_object_answers THEN exists(bucket[key]) ELSE FALSE

upload_file_to_aws_always(bucket, disk, key, overwrite, head_object_answers, upload_succeeds) ==
    IF ~exists(disk[key]) THEN bucket
    ELSE IF ~upload_succeeds THEN bucket
    ELSE [bucket EXCEPT ![key] = disk[key]]

\* upload_file_to_aws(path, overwrite): the bucket afterwards. Nothing is
\* uploaded when the local file is missing, when the object exists and
\* overwrite is False, when head_object fails, or when the upload fails; the
\* function then returns False, which no caller in the loop looks at.
upload_file_to_aws(bucket, disk, key, overwrite, head_object_answers, upload_succeeds) ==
    IF ~exists(disk[key]) THEN bucket
    ELSE IF ~overwrite /\ (~head_object_answers \/ exists(bucket[key]))
    THEN bucket
    ELSE IF ~upload_succeeds THEN bucket
    ELSE [bucket EXCEPT ![key] = disk[key]]

\* write_json_and_upload_to_s3: the disk and the bucket afterwards.
write_json_and_upload_to_s3(bucket, disk, key, dict_, upload_succeeds) ==
    LET written == [disk EXCEPT ![key] = dict_]
    IN  [disk |-> written,
         bucket |-> upload_file_to_aws(bucket, written, key, TRUE, TRUE,
                                       upload_succeeds)]

loop_body_no_ignore(row, k, bucket, disk, run, head1, head2, up1, up2) ==
    IF check_if_file_exists_on_aws(bucket, k, head1)
    THEN [outcome |-> "skipped", bucket |-> bucket, disk |-> disk]
    ELSE LET bucket1 == IF exists(disk[k])
                        THEN upload_file_to_aws(bucket, disk, k, FALSE,
                                                head2, up1)
                        ELSE bucket
         IN  IF row.raises
             THEN [outcome |-> "raised", bucket |-> bucket1, disk |-> disk]
             ELSE LET saved == write_json_and_upload_to_s3(
                                   bucket1, disk, k, File(run), up2)
                  IN  [outcome |-> "computed", bucket |-> saved.bucket,
                       disk |-> saved.disk]

\* The body of the loop for row k of the catalog. The S3 calls answer or
\* fail as head1, head2, up1 and up2 say.
loop_body(row, k, bucket, disk, run, head1, head2, up1, up2) ==
    IF row.ignore = "yes"
    THEN [outcome |-> "ignored", bucket |-> bucket, disk |-> disk]
    ELSE IF check_if_file_exists_on_aws(bucket, k, head1)
    THEN [outcome |-> "skipped", bucket |-> bucket, disk |-> disk]
    ELSE LET bucket1 == IF exists(disk[k])
                        THEN upload_file_to_aws(bucket, disk, k, FALSE,
                                                head2, up1)
                        ELSE bucket
         IN  IF row.raises
             THEN [outcome |-> "raised", bucket |-> bucket1, disk |-> disk]
             ELSE LET saved == write_json_and_upload_to_s3(
                                   bucket1, disk, k, File(run), up2)
                  IN  [outcome |-> "computed", bucket |-> saved.bucket,
                       disk |-> saved.disk]

\* The catalog, and the results files that exist before the first run.
LoopInit ==
    /\ catalog \in [1..NDatasets -> [ignore : {"yes", "no"}, raises : BOOLEAN]]
    /\ aws_results \in [1..NDatasets -> {NoFile, File(0)}]
    /\ local_results \in [1..NDatasets -> {NoFile, File(0)}]
    /\ dataset_idx = 1 /\ loop_pc = "running" /\ n_loop_runs = 1
    /\ visited = {} /\ had_result = {} /\ computed = {} /\ completed = {}
    /\ completed_before = {}

InitLoop ==
    /\ PipelineIdle /\ CountsIdle /\ FinderIdle /\ CodesIdle /\ LoopInit
    /\ ReadyIdle
    /\ CentroidIdle
    /\ ReprojectIdle
    /\ RasterIdle
    /\ TilesIdle
    /\ TransferIdle
    /\ MainIdle

\* One iteration of the loop over the catalog. An exception of the analysis
\* is caught nowhere, neither in the loop nor in main: the run ends.
ProcessDataset ==
    /\ loop_pc = "running"
    /\ dataset_idx <= Len(catalog)
    /\ \E head1, head2, up1, up2 \in BOOLEAN :
          LET k == dataset_idx
              out == loop_body(catalog[k], k, aws_results, local_results,
                               n_loop_runs, head1, head2, up1, up2)
          IN  /\ aws_results' = out.bucket
              /\ local_results' = out.disk
              /\ IF out.outcome = "ignored"
                 THEN UNCHANGED <<visited, had_result>>
                 ELSE /\ visited' = visited \cup {k}
                      /\ had_result' =
                            IF exists(aws_results[k]) \/ exists(local_results[k])
                            THEN had_result \cup {k} ELSE had_result
              /\ computed' = IF out.outcome \in {"computed", "raised"}
                             THEN computed \cup {k} ELSE computed
              /\ completed' = IF out.outcome = "computed"
                              THEN completed \cup {k} ELSE completed
              /\ IF out.outcome = "raised"
                 THEN loop_pc' = "raised" /\ UNCHANGED dataset_idx
                 ELSE /\ dataset_idx' = k + 1
                      /\ loop_pc' = IF k = Len(catalog) THEN "returned"
                                    ELSE "running"
    /\ UNCHANGED <<catalog, n_loop_runs, completed_before>>
    /\ UNCHANGED all_but_loop_vars

\* The program is run again, with the same catalog and the files as the
\* last run left them.
RunAgain ==
    /\ loop_pc \in {"returned", "raised"}
    /\ n_loop_runs < MaxLoopRuns
    /\ n_loop_runs' = n_loop_runs + 1
    /\ dataset_idx' = 1 /\ loop_pc' = "running"
    /\ completed_before' = completed_before \cup completed
    /\ visited' = {} /\ had_result' = {} /\ computed' = {} /\ completed' = {}
    /\ UNCHANGED <<catalog, aws_results, local_results>>
    /\ UNCHANGED all_but_loop_vars

NextLoop == ProcessDataset \/ RunAgain

SpecLoop == InitLoop /\ [][NextLoop]_vars

\* ------------------------------ get_ready_wrapper, download_and_parse_aws
\* Most rows a catalog holds, and the highest zoom level in a manifest.
MaxKeys == 2
MaxZoom == 2

\* An object in the bucket or a file on disk: missing, of zero bytes, or
\* holding rows (the keys of a catalog, the zoom levels a manifest names).
Missing == [exists |-> FALSE, zero_bytes |-> FALSE, rows |-> <<>>]
ZeroBytes == [exists |-> TRUE, zero_bytes |-> TRUE, rows |-> <<>>]
Holding(rows) == [exists |-> TRUE, zero_bytes |-> FALSE, rows |-> rows]

\* Sequences of at most n different elements of S.
SeqsWithoutRepeats(S, n) ==
    {q \in UNION {[1..m -> S] : m \in 0..n} :
        \A i, j \in DOMAIN q : i # j => q[i] # q[j]}

\* tempfile.NamedTemporaryFile(delete=False): a new file of zero bytes.
NamedTemporaryFile == ZeroBytes

\* download_file_from_aws(tmp_path, key, overwrite=True): the local file
\* afterwards, and the value returned. A missing object and a failed
\* download are logged; the local file is then left as it was.
download_file_from_aws(local_file, object, download_succeeds) ==
    IF object.exists /\ download_succeeds
    THEN [file |-> object, returned |-> TRUE]
    ELSE [file |-> local_file, returned |-> FALSE]

\* parse_catalog (pd.read_csv) and get_max_zoom_from_manifest (json.load)
\* as parse_func: both raise on a missing file and on a file of zero bytes.
parse_catalog(file) ==
    IF ~file.exists \/ file.zero_bytes
    THEN [raised |-> TRUE, value |-> <<>>]
    ELSE [raised |-> FALSE, value |-> file.rows]

RECURSIVE highest(_, _)
highest(keys, so_far) ==
    IF keys = <<>> THEN so_far
    ELSE highest(Tail(keys),
                 IF Head(keys) > so_far THEN Head(keys) ELSE so_far)

get_max_zoom_from_manifest(file) ==
    IF ~file.exists \/ file.zero_bytes
    THEN [raised |-> TRUE, value |-> -1]
    ELSE [raised |-> FALSE, value |-> highest(file.rows, -1)]

\* download_and_parse_aws: the result of the download is not looked at;
\* parse_func is given the temporary file whatever happened.
download_and_parse_aws_catalog(object, download_succeeds) ==
    parse_catalog(
        download_file_from_aws(NamedTemporaryFile, object,
                               download_succeeds).file)

download_and_parse_aws_manifest(object, download_succeeds) ==
    get_max_zoom_from_manifest(
        download_file_from_aws(NamedTemporaryFile, object,
                               download_succeeds).file)

\* The rows of a catalog file: one entry for each key, with the fields as
\* that copy of the catalog ("local" or "remote") has them.
entries(keys, copy) == [k \in DOMAIN keys |-> [key |-> keys[k], fields |-> copy]]

\* sync_catalogs: the local rows followed by the remote rows whose key the
\* local catalog does not have.
sync_catalogs(remote, local) ==
    local \o SelectSeq(remote, LAMBDA entry :
                \A k \in DOMAIN local : local[k].key # entry.key)

ReadyInit ==
    /\ s3_catalog \in {Missing} \cup
          {Holding(entries(keys, "remote")) :
              keys \in SeqsWithoutRepeats(1..MaxKeys, MaxKeys)}
    /\ s3_catalog_at_start = s3_catalog
    /\ disk_catalog \in
          {Holding(entries(keys, "local")) :
              keys \in SeqsWithoutRepeats(1..MaxKeys, MaxKeys)}
    /\ s3_manifest \in {Missing} \cup
          {Holding(rows) : rows \in SeqsWithoutRepeats(0..MaxZoom, 2)}
    /\ catalog_remote = <<>> /\ catalog_local = <<>> /\ synced_catalog = <<>>
    /\ max_zoom = 0
    /\ ready_pc = "load_remote_catalog"

InitReady ==
    /\ PipelineIdle /\ CountsIdle /\ FinderIdle /\ CodesIdle /\ LoopIdle
    /\ ReadyInit
    /\ CentroidIdle
    /\ ReprojectIdle
    /\ RasterIdle
    /\ TilesIdle
    /\ TransferIdle
    /\ MainIdle

\* get_ready_wrapper: catalog_remote = load_remote_catalog(path_catalog)
LoadRemoteCatalog ==
    /\ ready_pc = "load_remote_catalog"
    /\ \E download_succeeds \in BOOLEAN :
          LET parsed == download_and_parse_aws_catalog(s3_catalog,
                                                       download_succeeds)
          IN  IF parsed.raised
              THEN ready_pc' = "raised" /\ UNCHANGED catalog_remote
              ELSE /\ ready_pc' = "parse_catalog"
                   /\ catalog_remote' = parsed.value
    /\ UNCHANGED <<s3_catalog, s3_catalog_at_start, disk_catalog, s3_manifest,
                   catalog_local, synced_catalog, max_zoom>>
    /\ UNCHANGED all_but_ready_vars

\* get_ready_wrapper: catalog_local = parse_catalog(path_catalog)
LoadLocalCatalog ==
    /\ ready_pc = "parse_catalog"
    /\ LET parsed == parse_catalog(disk_catalog)
       IN  IF parsed.raised
           THEN ready_pc' = "raised" /\ UNCHANGED catalog_local
           ELSE ready_pc' = "sync_catalogs" /\ catalog_local' = parsed.value
    /\ UNCHANGED <<s3_catalog, s3_catalog_at_start, disk_catalog, s3_manifest,
                   catalog_remote, synced_catalog, max_zoom>>
    /\ UNCHANGED all_but_ready_vars

\* get_ready_wrapper: catalog = sync_catalogs(...), which writes the synced
\* catalog to disk and uploads it (overwrite = True).
SyncCatalogs ==
    /\ ready_pc = "sync_catalogs"
    /\ synced_catalog' = sync_catalogs(catalog_remote, catalog_local)
    /\ disk_catalog' = Holding(synced_catalog')
    /\ \E upload_succeeds \in BOOLEAN :
          s3_catalog' = IF upload_succeeds THEN disk_catalog' ELSE s3_catalog
    /\ ready_pc' = "ready"
    /\ UNCHANGED <<s3_catalog_at_start, s3_manifest, catalog_remote,
                   catalog_local, max_zoom>>
    /\ UNCHANGED all_but_ready_vars

\* write_dataset_summary_file: max_zoom = download_and_parse_aws(
\* path_manifest, get_max_zoom_from_manifest)
LoadManifest ==
    /\ ready_pc = "ready"
    /\ \E download_succeeds \in BOOLEAN :
          LET parsed == download_and_parse_aws_manifest(s3_manifest,
                                                        download_succeeds)
          IN  IF parsed.raised
              THEN ready_pc' = "manifest_raised" /\ UNCHANGED max_zoom
              ELSE ready_pc' = "done" /\ max_zoom' = parsed.value
    /\ UNCHANGED <<s3_catalog, s3_catalog_at_start, disk_catalog, s3_manifest,
                   catalog_remote, catalog_local, synced_catalog>>
    /\ UNCHANGED all_but_ready_vars

NextReady ==
    LoadRemoteCatalog \/ LoadLocalCatalog \/ SyncCatalogs \/ LoadManifest

SpecReady == InitReady /\ [][NextReady]_vars

\* ----------------------------------------------- geographic_true_centroid
\* Longitudes and latitudes are whole numbers of a small unit, 0..MaxCoord;
\* max_iterations is at most MaxIterations and tolerance at most
\* MaxTolerance units.
MaxCoord == 2
MaxIterations == 3
MaxTolerance == 2

Coords == 0..MaxCoord

abs(x) == IF x < 0 THEN -x ELSE x

converged_if_either(lon_, lat_, new_lon, new_lat, tolerance_) ==
    abs(new_lon - lon_) < tolerance_ \/ abs(new_lat - lat_) < tolerance_

\* abs(new_lon - lon) < tolerance and abs(new_lat - lat) < tolerance
converged(lon_, lat_, new_lon, new_lat, tolerance_) ==
    abs(new_lon - lon_) < tolerance_ /\ abs(new_lat - lat_) < tolerance_

CentroidInit ==
    /\ polygon_is_valid \in BOOLEAN
    /\ tolerance \in 1..MaxTolerance
    /\ max_iterations \in 0..MaxIterations
    /\ lon = 0 /\ lat = 0 /\ previous_lon = 0 /\ previous_lat = 0
    /\ n_steps = 0 /\ centroid_pc = "start" /\ returned_centroid = <<>>

\* The assertion, the centroid in the polygon's own CRS taken to geographic
\* coordinates, and the test of the loop before its first pass: with
\* max_iterations = 0 the function returns the initial estimate.
StartCentroid ==
    /\ centroid_pc = "start"
    /\ IF ~polygon_is_valid
       THEN /\ centroid_pc' = "raised"
            /\ UNCHANGED <<lon, lat, returned_centroid>>
       ELSE \E lon0, lat0 \in Coords :
               /\ lon' = lon0 /\ lat' = lat0
               /\ IF max_iterations = 0
                  THEN /\ centroid_pc' = "returned"
                       /\ returned_centroid' = <<lon0, lat0>>
                  ELSE /\ centroid_pc' = "loop"
                       /\ UNCHANGED returned_centroid
    /\ UNCHANGED <<polygon_is_valid, tolerance, max_iterations, previous_lon,
                   previous_lat, n_steps>>
    /\ UNCHANGED all_but_centroid_vars

\* One pass of the loop: the polygon is projected about (lon, lat) and the
\* centroid found there is taken back to geographic coordinates, which gives
\* some (new_lon, new_lat). The function returns it when it is within
\* tolerance of (lon, lat), and also when this was the last pass.
Recenter ==
    /\ centroid_pc = "loop"
    /\ n_steps < max_iterations
    /\ \E new_lon, new_lat \in Coords :
          /\ n_steps' = n_steps + 1
          /\ previous_lon' = lon /\ previous_lat' = lat
          /\ lon' = new_lon /\ lat' = new_lat
          /\ IF converged(lon, lat, new_lon, new_lat, tolerance)
                \/ n_steps + 1 = max_iterations
             THEN /\ centroid_pc' = "returned"
                  /\ returned_centroid' = <<new_lon, new_lat>>
             ELSE UNCHANGED <<centroid_pc, returned_centroid>>
    /\ UNCHANGED <<polygon_is_valid, tolerance, max_iterations>>
    /\ UNCHANGED all_but_centroid_vars

NextCentroid == StartCentroid \/ Recenter

InitCentroid ==
    /\ PipelineIdle /\ CountsIdle /\ FinderIdle /\ CodesIdle /\ LoopIdle
    /\ ReadyIdle
    /\ CentroidInit
    /\ ReprojectIdle
    /\ RasterIdle
    /\ TilesIdle
    /\ TransferIdle
    /\ MainIdle

SpecCentroid == InitCentroid /\ [][NextCentroid]_vars

\* ------------------------------------------------------- reproject_raster
\* Floating-point pixel values: a few numbers and NaN, which is equal to
\* nothing, itself included.
NaN == -1
FloatValues == {NaN, 0, 1}

\* x == value, element by element on floats
equal(x, value) == x # NaN /\ value # NaN /\ x = value

\* raster_data.filled(fill_value)
filled(array, fill_value) ==
    [p \in DOMAIN array.data |->
        IF array.mask[p] THEN fill_value ELSE array.data[p]]

\* np.ma.masked_equal on floats: masked where equal(data, value).
masked_equal_float(data, value) ==
    [data |-> data,
     mask |-> [p \in DOMAIN data |-> equal(data[p], value)],
     fill_value |-> value]

\* GDAL's test of a source pixel against src_nodata (NaN matches NaN).
is_nodata(x, nodata) == IF nodata = NaN THEN x = NaN ELSE x = nodata

\* rasterio.warp.reproject with Resampling.nearest: every destination pixel
\* takes the value of its nearest source pixel, grid[p] (0: none, the pixel
\* lies outside the source), and dst_nodata where that is nodata.
reproject(source, grid, src_nodata, dst_nodata) ==
    [p \in DOMAIN grid |->
        IF grid[p] = 0 THEN dst_nodata
        ELSE IF is_nodata(source[grid[p]], src_nodata) THEN dst_nodata
        ELSE source[grid[p]]]

reproject_raster(raster_data_, grid) ==
    LET src_nodata == raster_data_.fill_value
        raster_data_filled == filled(raster_data_, src_nodata)
        reprojected == reproject(raster_data_filled, grid, src_nodata,
                                 src_nodata)
    IN  masked_equal_float(reprojected, src_nodata)

\* One to one: destination pixel p lies on source pixel p.
PixelForPixel == [p \in Pixels |-> p]

ReprojectInit ==
    /\ rp_raster_data \in [data : [Pixels -> FloatValues],
                           mask : [Pixels -> BOOLEAN],
                           fill_value : FloatValues]
    /\ rp_grid \in [Pixels -> {0} \cup Pixels]
    /\ rp_returned = <<>>

ReprojectRaster ==
    /\ rp_returned = <<>>
    /\ rp_returned' = reproject_raster(rp_raster_data, rp_grid)
    /\ UNCHANGED <<rp_raster_data, rp_grid>>
    /\ UNCHANGED all_but_reproject_vars

NextReproject == ReprojectRaster

InitReproject ==
    /\ PipelineIdle /\ CountsIdle /\ FinderIdle /\ CodesIdle /\ LoopIdle
    /\ ReadyIdle
    /\ CentroidIdle
    /\ ReprojectInit
    /\ RasterIdle
    /\ TilesIdle
    /\ TransferIdle
    /\ MainIdle

SpecReproject == InitReproject /\ [][NextReproject]_vars

\* ------------------------------------------------ the end-to-end scenario
\* A square raster of Side by Side pixels stored column after column: pixel
\* p lies in column (p - 1) \div Side and row (p - 1) % Side.
ScenarioPixels == 1..(Side * Side)
column_of(p) == (p - 1) \div Side
row_of(p) == (p - 1) % Side

\* The checkerboard of no-data pixels, starting on either colour.
is_checkerboard_nodata(p, parity) ==
    (row_of(p) + column_of(p) + parity) % 2 = 0

\* The polygon covering the left half and the protected area covering the
\* top half of the raster.
LeftHalf == {p \in ScenarioPixels : column_of(p) < Side \div 2}
TopHalf == {p \in ScenarioPixels : row_of(p) < Side \div 2}

LeftHalfPolygon ==
    [lo |-> 1, hi |-> Side * (Side \div 2), inside |-> LeftHalf]

ScenarioTable ==
    GeoDataFrame(<<[id |-> "left-half", geometry |-> LeftHalfPolygon]>>)

\* Checkerboard rasters whose valid values vary along rows and columns.
ScenarioRasters ==
    { [p \in ScenarioPixels |->
        IF is_checkerboard_nodata(p, parity) THEN NoData
        ELSE 1 + ((a * row_of(p) + b * column_of(p) + s) % MaxVal)] :
        parity \in 0..1, a \in 0..2, b \in 0..2, s \in 0..(MaxVal - 1) }

\* Land use known everywhere, or only on one colour of a checkerboard.
ScenarioLanduseRasters ==
    { [p \in ScenarioPixels |-> 1 + (row_of(p) % MaxCat)] } \cup
    { [p \in ScenarioPixels |->
        IF is_checkerboard_nodata(p, parity) THEN 1 ELSE LanduseNoData] :
        parity \in 0..1 }

ScenarioInit ==
    /\ raster_src \in ScenarioRasters
    /\ raster_data = read_masked(raster_src, NoData)
    /\ PA_mask = [p \in ScenarioPixels |-> IF p \in TopHalf THEN 1 ELSE 0]
    /\ landuse_src \in ScenarioLanduseRasters
    /\ pixel_area_km2 \in 1..PixelArea
    /\ bins = make_bins(raster_src)
    /\ group_idx = 1
    /\ poly_idx = 1
    /\ views = NoViews
    /\ group_results = <<>>
    /\ results = <<>>

\* bin_raster_for_one_polygon_group for the one polygon of the scenario.
BinScenarioPolygon ==
    /\ group_results = <<>>
    /\ LET out == bin_raster_for_one_polygon(ScenarioTable, poly_idx,
                      raster_data, raster_src, PA_mask, landuse_src, bins,
                      pixel_area_km2)
       IN  /\ views' = out.views
           /\ raster_data' = raster_data_after_prepare(ScenarioTable,
                                  raster_data, PA_mask)
           /\ group_results' = (out.polygon_id :> out.record)
    /\ UNCHANGED <<raster_src, PA_mask, landuse_src, bins, pixel_area_km2,
                   group_idx, poly_idx, results>>
    /\ UNCHANGED all_but_bin_vars

NextScenario == BinScenarioPolygon

InitScenario ==
    /\ ScenarioInit /\ CountsIdle /\ FinderIdle /\ CodesIdle /\ LoopIdle
    /\ ReadyIdle
    /\ CentroidIdle
    /\ ReprojectIdle
    /\ RasterIdle
    /\ TilesIdle
    /\ TransferIdle
    /\ MainIdle

SpecScenario == InitScenario /\ [][NextScenario]_vars

\* ----------------------- find_intersections_and_do_binning_for_one_raster
\* The candidates of the raster runs: no intersection, an intersection too
\* small to keep, and intersections that are kept.
RasterCountryCandidates ==
    { Candidate(1000, GeometryCollection(<<>>)),
      Candidate(11000, Polygon(99)),
      Candidate(1000, Polygon(11)) }

RasterAdm1Candidates ==
    { Candidate(1000, Polygon(9)),
      Candidate(1000, Polygon(11)) }

\* Rasters with different values, with and without a no-data pixel.
RasterSamples ==
    { [p \in Pixels |-> (p + s) % (MaxVal + 1)] : s \in 0..2 }

\* Protected everywhere, or on every other pixel.
PAMaskSamples ==
    { [p \in Pixels |-> 1], [p \in Pixels |-> p % 2] }

\* The pixels of the grid that the polygon of a row covers: one pixel,
\* given by the place of the row's code among all codes.
pixel_of_code(code, all_codes) ==
    ((position_in(all_codes, code) - 1) % Width) + 1

geometry_on_grid(code, all_codes) ==
    LET p == pixel_of_code(code, all_codes)
    IN  [lo |-> p, hi |-> p, inside |-> {p}]

\* polygons_GDF.to_crs(dst_crs): a table of intersections as the binning
\* reads it, polygon_id_field and geometry.
to_crs(intersections, polygon_id_field, all_codes) ==
    GeoDataFrame([k \in DOMAIN intersections |->
        [id |-> intersections[k].attrs[polygon_id_field],
         geometry |-> geometry_on_grid(
             intersections[k].attrs[polygon_id_field], all_codes)]])

polygon_id_field_dict ==
    [name \in {"country", "adm1-zone"} |->
        IF name = "country" THEN "iso3" ELSE "adm1_code"]

bin_raster_for_one_polygon_group_first_only(polygons_GDF, raster_data_, src, mask, lu_src, bins_, pixel_area) ==
    LET n == IF n_polys(polygons_GDF) = 0 THEN 0 ELSE 1
        out == [i \in 1..n |->
                   bin_raster_for_one_polygon(polygons_GDF, i, raster_data_,
                       src, mask, lu_src, bins_, pixel_area)]
    IN  [id \in {out[i].polygon_id : i \in 1..n} |->
            out[CHOOSE i \in 1..n : out[i].polygon_id = id].record]

\* bin_raster_for_one_polygon_group: the dictionary polygon_id -> record of
\* the polygons of one group; a later row replaces an earlier one of the
\* same id.
bin_raster_for_one_polygon_group(polygons_GDF, raster_data_, src, mask, lu_src, bins_, pixel_area) ==
    LET n == n_polys(polygons_GDF)
        out == [i \in 1..n |->
                   bin_raster_for_one_polygon(polygons_GDF, i, raster_data_,
                       src, mask, lu_src, bins_, pixel_area)]
    IN  [id \in {out[i].polygon_id : i \in 1..n} |->
            out[CHOOSE i \in 1..n :
                    /\ out[i].polygon_id = id
                    /\ \A j \in 1..n : out[j].polygon_id = id => j <= i].record]

\* The raster file, the boundary files, the protected areas and the land
\* use the function is called with.
RasterInit ==
    /\ \E cs \in [1..NCountries -> RasterCountryCandidates] :
          gdf_adm0 = [k \in 1..NCountries |-> adm0_row(k, cs[k])]
    /\ \E zs \in [1..NCountries -> RasterAdm1Candidates] :
          adm1_file = [k \in 1..NCountries |-> adm1_row(k, zs[k])]
    /\ raster_total_area_km2 \in RasterAreas
    /\ pc = "start"
    /\ intersections_adm0 = <<>> /\ list_of_adm0 = <<>> /\ gdf_adm1 = <<>>
    /\ intersections_adm1 = <<>> /\ list_of_adm1 = <<>>
    /\ crs \in {"none", "geographic", "projected"}
    /\ dst_crs = "unbound"
    /\ raster_pc = "intersect"
    /\ raster_results = <<>>
    /\ raster_src \in RasterSamples
    /\ raster_data = read_masked(raster_src, NoData)
    /\ PA_mask \in PAMaskSamples
    /\ landuse_src = [p \in Pixels |-> (p % (MaxCat + 1))]
    /\ pixel_area_km2 = PixelArea
    /\ bins = <<>>
    /\ group_idx = 0
    /\ poly_idx = 0
    /\ views = NoViews
    /\ group_results = <<>>
    /\ results = <<>>

\* find_which_polygons_intersect_raster_wrapper raised: the error leaves
\* find_intersections_and_do_binning_for_one_raster.
IntersectionsRaise ==
    /\ raster_pc = "intersect"
    /\ pc = "error"
    /\ raster_pc' = "raised"
    /\ UNCHANGED <<crs, dst_crs, raster_results>>
    /\ UNCHANGED <<bin_vars, counts_vars, finder_vars, codes_vars, loop_vars,
                   ready_vars, centroid_vars, reproject_vars, tiles_vars,
                   transfer_vars, main_vars>>

\* The bins, then bin_raster_for_all_polygon_groups up to its loop: the
\* raster is reprojected when its CRS is missing or geographic, and only
\* then is dst_crs assigned.
OpenRaster ==
    /\ raster_pc = "intersect"
    /\ pc = "done"
    /\ bins' = make_bins(raster_src)
    /\ IF crs \in {"none", "geographic"}
       THEN /\ dst_crs' = "regional"
            /\ \E grid \in {PixelForPixel,
                            [p \in Pixels |-> IF p = 1 THEN 0 ELSE p - 1]} :
                 LET dst_raster_data ==
                         reproject_raster(
                             [data |-> raster_data.data,
                              mask |-> raster_data.mask,
                              fill_value |-> NoData], grid)
                 IN  /\ raster_data' = masked_array(dst_raster_data.data,
                                                    dst_raster_data.mask)
                     /\ raster_src' = make_in_memory_raster(
                                          dst_raster_data, NoData)
       ELSE UNCHANGED <<dst_crs, raster_src, raster_data>>
    /\ group_idx' = 1
    /\ raster_pc' = "binning"
    /\ UNCHANGED <<crs, raster_results>>
    /\ UNCHANGED <<PA_mask, landuse_src, pixel_area_km2, poly_idx, views,
                   group_results, results>>
    /\ UNCHANGED <<counts_vars, finder_vars, codes_vars, loop_vars,
                   ready_vars, centroid_vars, reproject_vars, tiles_vars,
                   transfer_vars, main_vars>>

\* One pass of the loop over dict_of_polygon_GDFs. A table of polygons is
\* first reprojected to dst_crs; reading dst_crs raises when it was never
\* assigned. After the last group the results are returned with the lists
\* of codes.
BinPolygonGroup ==
    /\ raster_pc = "binning"
    /\ LET name == polygon_group_names[group_idx]
           is_none == name = "whole"
       IN  IF ~is_none /\ dst_crs = "unbound"
           THEN /\ raster_pc' = "raised"
                /\ UNCHANGED <<results, group_idx, raster_results,
                               raster_data>>
           ELSE LET polygons_GDF ==
                        CASE name = "whole" -> None
                          [] name = "country" ->
                                to_crs(intersections_adm0,
                                       polygon_id_field_dict[name], all_iso3)
                          [] name = "adm1-zone" ->
                                to_crs(intersections_adm1,
                                       polygon_id_field_dict[name],
                                       all_adm1_codes)
                    stored == results @@ (name :>
                        bin_raster_for_one_polygon_group(polygons_GDF,
                            raster_data, raster_src, PA_mask, landuse_src,
                            bins, pixel_area_km2))
                IN  /\ results' = stored
                    /\ raster_data' = raster_data_after_prepare(
                                          polygons_GDF, raster_data, PA_mask)
                    /\ IF group_idx < Len(polygon_group_names)
                       THEN /\ group_idx' = group_idx + 1
                            /\ UNCHANGED <<raster_pc, raster_results>>
                       ELSE /\ raster_pc' = "done"
                            /\ raster_results' =
                                 [groups |-> stored,
                                  adm0_list |-> list_of_adm0,
                                  adm1_list |-> list_of_adm1]
                            /\ UNCHANGED group_idx
    /\ UNCHANGED <<crs, dst_crs>>
    /\ UNCHANGED <<raster_src, PA_mask, landuse_src, bins, pixel_area_km2,
                   poly_idx, views, group_results>>
    /\ UNCHANGED <<counts_vars, finder_vars, codes_vars, loop_vars,
                   ready_vars, centroid_vars, reproject_vars, tiles_vars,
                   transfer_vars, main_vars>>

NextRaster ==
    \/ FindAdm0 \/ FindAdm1 \/ IntersectionsRaise
    \/ OpenRaster \/ BinPolygonGroup

InitRaster ==
    /\ RasterInit /\ CountsIdle /\ CodesIdle /\ LoopIdle
    /\ ReadyIdle
    /\ CentroidIdle
    /\ ReprojectIdle
    /\ TilesIdle
    /\ TransferIdle
    /\ MainIdle

SpecRaster == InitRaster /\ [][NextRaster]_vars

\* --------------------------------------------- prepare_raster_tiles_wrapper
\* Most tiles of a tileset, and most calls of the wrapper for it.
MaxTiles == 3
MaxTileRuns == 2

\* The files gdal2tiles and create_tile_manifest leave in the directory of
\* the tileset: the tiles, in sub-directories z/x, and the manifest, in the
\* directory itself.
tile_manifest == ".tile_manifest.json"
tile_file(k) == "0/0/" \o ToString(k) \o ".png"
tile_files == {tile_file(k) : k \in 1..MaxTiles}

\* os.walk(dir_path_local), top down: the files of the directory itself
\* come before those of its sub-directories, which come in any order.
walk(directory) ==
    LET top == IF tile_manifest \in directory THEN <<tile_manifest>> ELSE <<>>
        below == SetToSeq(directory \ {tile_manifest})
    IN  {top \o [k \in DOMAIN below |-> below[f[k]]] :
            f \in Arrangements(Len(below))}

TilesInit ==
    /\ tiles_local = {} /\ tiles_remote = {} /\ file_paths = <<>>
    /\ tiles_pc = "start" /\ n_tile_runs = 1

\* prepare_raster_tiles_wrapper up to the upload loop: return when the
\* manifest is found on the remote (check_if_file_exists_on_aws answers
\* False when head_object fails otherwise); else make the tiles and the
\* manifest and list the files to upload (overwrite is 'yes': the remote
\* manifest is not compared).
PrepareTiles ==
    /\ tiles_pc = "start"
    /\ \E head_object_answers \in BOOLEAN :
         IF head_object_answers /\ tile_manifest \in tiles_remote
         THEN /\ tiles_pc' = "returned"
              /\ UNCHANGED <<tiles_local, file_paths>>
         ELSE /\ tiles_local' = tile_files \cup {tile_manifest}
              /\ file_paths' \in walk(tiles_local')
              /\ tiles_pc' = "uploading"
    /\ UNCHANGED <<tiles_remote, n_tile_runs>>
    /\ UNCHANGED all_but_tiles_vars

\* One pass of the upload loop: s3.upload_file for the next file.
UploadNextFile ==
    /\ tiles_pc = "uploading"
    /\ file_paths # <<>>
    /\ tiles_remote' = tiles_remote \cup {Head(file_paths)}
    /\ file_paths' = Tail(file_paths)
    /\ tiles_pc' = IF Tail(file_paths) = <<>> THEN "returned" ELSE "uploading"
    /\ UNCHANGED <<tiles_local, n_tile_runs>>
    /\ UNCHANGED all_but_tiles_vars

\* s3.upload_file raises (nothing in the loop catches it), or the process
\* ends: the call stops between two uploads.
UploadStops ==
    /\ tiles_pc = "uploading"
    /\ file_paths # <<>>
    /\ tiles_pc' = "stopped"
    /\ file_paths' = <<>>
    /\ UNCHANGED <<tiles_local, tiles_remote, n_tile_runs>>
    /\ UNCHANGED all_but_tiles_vars

\* The next run of the pipeline calls the wrapper for the tileset again.
CallWrapperAgain ==
    /\ tiles_pc \in {"returned", "stopped"}
    /\ n_tile_runs < MaxTileRuns
    /\ n_tile_runs' = n_tile_runs + 1
    /\ tiles_pc' = "start"
    /\ UNCHANGED <<tiles_local, tiles_remote, file_paths>>
    /\ UNCHANGED all_but_tiles_vars

NextTiles ==
    PrepareTiles \/ UploadNextFile \/ UploadStops \/ CallWrapperAgain

InitTiles ==
    /\ PipelineIdle /\ CountsIdle /\ FinderIdle /\ CodesIdle /\ LoopIdle
    /\ ReadyIdle
    /\ CentroidIdle
    /\ ReprojectIdle
    /\ RasterIdle
    /\ TilesInit
    /\ TransferIdle
    /\ MainIdle

SpecTiles == InitTiles /\ [][NextTiles]_vars

\* ------------------------------ upload_file_to_aws, download_file_from_aws
\* Most calls in a row.
MaxTransfers == 2

\* The value upload_file_to_aws returns.
upload_file_to_aws_returned(bucket, disk, key, overwrite, head_object_answers, upload_succeeds) ==
    IF ~exists(disk[key]) THEN FALSE
    ELSE IF ~overwrite /\ (~head_object_answers \/ exists(bucket[key]))
    THEN FALSE
    ELSE upload_succeeds

\* download_file_from_aws(local_path, overwrite): an existing local file is
\* left alone unless overwrite is set; otherwise the download goes ahead.
download_file_from_aws_overwrite(local_file, object, overwrite, download_succeeds) ==
    IF local_file.exists /\ ~overwrite
    THEN [file |-> local_file, returned |-> FALSE]
    ELSE download_file_from_aws(local_file, object, download_succeeds)

NoTransfer ==
    [op |-> "none", overwrite |-> FALSE, source_exists |-> FALSE,
     destination_existed |-> FALSE, replaced |-> FALSE, unchanged |-> TRUE,
     returned |-> FALSE]

\* Files of different contents on the two sides, or no file.
TransferInit ==
    /\ up_disk \in [1..1 -> {NoFile, File(1)}]
    /\ up_bucket \in [1..1 -> {NoFile, File(2)}]
    /\ down_local \in {Missing, Holding(<<1>>)}
    /\ down_object \in {Missing, Holding(<<2>>)}
    /\ last_transfer = NoTransfer
    /\ n_transfers = 0

\* A call of upload_file_to_aws; head_object and upload_file answer or fail.
Upload ==
    /\ n_transfers < MaxTransfers
    /\ \E overwrite \in BOOLEAN, head_object_answers \in BOOLEAN,
          upload_succeeds \in BOOLEAN :
         /\ up_bucket' = upload_file_to_aws(up_bucket, up_disk, 1, overwrite,
                             head_object_answers, upload_succeeds)
         /\ last_transfer' =
              [op |-> "upload", overwrite |-> overwrite,
               source_exists |-> exists(up_disk[1]),
               destination_existed |-> exists(up_bucket[1]),
               replaced |-> up_bucket'[1] = up_disk[1],
               unchanged |-> up_bucket' = up_bucket,
               returned |-> upload_file_to_aws_returned(up_bucket, up_disk,
                   1, overwrite, head_object_answers, upload_succeeds)]
    /\ n_transfers' = n_transfers + 1
    /\ UNCHANGED <<up_disk, down_local, down_object>>
    /\ UNCHANGED all_but_transfer_vars

\* A call of download_file_from_aws; download_file answers or fails.
Download ==
    /\ n_transfers < MaxTransfers
    /\ \E overwrite \in BOOLEAN, download_succeeds \in BOOLEAN :
         LET out == download_file_from_aws_overwrite(down_local, down_object,
                        overwrite, download_succeeds)
         IN  /\ down_local' = out.file
             /\ last_transfer' =
                  [op |-> "download", overwrite |-> overwrite,
                   source_exists |-> down_object.exists,
                   destination_existed |-> down_local.exists,
                   replaced |-> out.file = down_object,
                   unchanged |-> out.file = down_local,
                   returned |-> out.returned]
    /\ n_transfers' = n_transfers + 1
    /\ UNCHANGED <<up_disk, up_bucket, down_object>>
    /\ UNCHANGED all_but_transfer_vars

NextTransfer == Upload \/ Download

InitTransfer ==
    /\ PipelineIdle /\ CountsIdle /\ FinderIdle /\ CodesIdle /\ LoopIdle
    /\ ReadyIdle
    /\ CentroidIdle
    /\ ReprojectIdle
    /\ RasterIdle
    /\ TilesIdle
    /\ TransferInit
    /\ MainIdle

SpecTransfer == InitTransfer /\ [][NextTransfer]_vars

\* ------------------------------------------------------------------ main
\* download_and_parse_aws(path_dataset_results, read_json): json.load raises
\* on the empty temporary file that a missing object or a failed download
\* leaves.
download_and_parse_aws_results(object, download_succeeds) ==
    IF exists(object) /\ download_succeeds
    THEN [raised |-> FALSE, value |-> object]
    ELSE [raised |-> TRUE, value |-> NoFile]

\* The body of the loop of load_all_results_from_aws for row k.
load_one_result(row, k, bucket, results_, download_succeeds) ==
    IF row.ignore = "yes"
    THEN [outcome |-> "ignored", results |-> results_]
    ELSE LET parsed == download_and_parse_aws_results(bucket[k],
                                                      download_succeeds)
         IN  IF parsed.raised
             THEN [outcome |-> "raised", results |-> results_]
             ELSE [outcome |-> "loaded",
                   results |-> [j \in DOMAIN results_ \cup {k} |->
                                   IF j = k THEN parsed.value
                                   ELSE results_[j]]]

\* The body of the loop of make_tiles_for_all_rasters for row k:
\* results[dataset_name] raises KeyError for a name the map does not have,
\* and prepare_raster_tiles_wrapper may raise.
make_tiles_for_one_raster(row, k, results_, tiles_raise) ==
    IF row.ignore = "yes" THEN "ignored"
    ELSE IF k \notin DOMAIN results_ THEN "raised"
    ELSE IF tiles_raise THEN "tiles_raised"
    ELSE "tiled"

\* main after get_ready_wrapper: the synced catalog, and the results files
\* that earlier runs left in the bucket and on disk.
MainInit ==
    /\ main_catalog \in
          [1..NDatasets -> [ignore : {"yes", "no"}, raises : BOOLEAN]]
    /\ main_bucket \in [1..NDatasets -> {NoFile, File(0)}]
    /\ main_disk \in [1..NDatasets -> {NoFile, File(0)}]
    /\ main_pc = "analyse" /\ main_idx = 1
    /\ main_analysed = {} /\ main_saved = {} /\ main_downloaded = {}
    /\ main_results = <<>> /\ main_tiled = {}

\* Where a loop over the catalog goes after row k.
after_row(k, stage, next_stage) ==
    IF k = Len(main_catalog) THEN [pc |-> next_stage, idx |-> 1]
    ELSE [pc |-> stage, idx |-> k + 1]

\* One iteration of find_intersections_and_do_binning_for_all_rasters.
AnalyseDataset ==
    /\ main_pc = "analyse"
    /\ \E head1, head2, up1, up2 \in BOOLEAN :
          LET k == main_idx
              out == loop_body(main_catalog[k], k, main_bucket, main_disk,
                               1, head1, head2, up1, up2)
              to == after_row(k, "analyse", "load")
          IN  /\ main_bucket' = out.bucket
              /\ main_disk' = out.disk
              /\ main_analysed' =
                    IF out.outcome \in {"computed", "raised"}
                    THEN main_analysed \cup {k} ELSE main_analysed
              /\ main_saved' = main_saved \cup
                    {j \in DOMAIN main_catalog :
                        \/ out.bucket[j] # main_bucket[j]
                        \/ out.disk[j] # main_disk[j]}
              /\ IF out.outcome = "raised"
                 THEN main_pc' = "raised" /\ UNCHANGED main_idx
                 ELSE main_pc' = to.pc /\ main_idx' = to.idx
    /\ UNCHANGED <<main_catalog, main_downloaded, main_results, main_tiled>>
    /\ UNCHANGED all_but_main_vars

\* One iteration of load_all_results_from_aws.
LoadResult ==
    /\ main_pc = "load"
    /\ \E download_succeeds \in BOOLEAN :
          LET k == main_idx
              out == load_one_result(main_catalog[k], k, main_bucket,
                                     main_results, download_succeeds)
              to == after_row(k, "load", "tiles")
          IN  /\ main_results' = out.results
              /\ main_downloaded' =
                    IF out.outcome = "ignored" THEN main_downloaded
                    ELSE main_downloaded \cup {k}
              /\ IF out.outcome = "raised"
                 THEN main_pc' = "raised" /\ UNCHANGED main_idx
                 ELSE main_pc' = to.pc /\ main_idx' = to.idx
    /\ UNCHANGED <<main_catalog, main_bucket, main_disk, main_analysed,
                   main_saved, main_tiled>>
    /\ UNCHANGED all_but_main_vars

\* One iteration of make_tiles_for_all_rasters.
MakeTiles ==
    /\ main_pc = "tiles"
    /\ \E tiles_raise \in BOOLEAN :
          LET k == main_idx
              outcome == make_tiles_for_one_raster(main_catalog[k], k,
                                                   main_results, tiles_raise)
              to == after_row(k, "tiles", "summary")
          IN  /\ main_tiled' = IF outcome \in {"tiled", "tiles_raised"}
                               THEN main_tiled \cup {k} ELSE main_tiled
              /\ IF outcome \in {"raised", "tiles_raised"}
                 THEN main_pc' = "raised" /\ UNCHANGED main_idx
                 ELSE main_pc' = to.pc /\ main_idx' = to.idx
    /\ UNCHANGED <<main_catalog, main_bucket, main_disk, main_analysed,
                   main_saved, main_downloaded, main_results>>
    /\ UNCHANGED all_but_main_vars

\* write_dataset_summary_file: a loop over the names of the results map.
WriteSummary ==
    /\ main_pc = "summary"
    /\ main_pc' = "done"
    /\ UNCHANGED <<main_catalog, main_bucket, main_disk, main_idx,
                   main_analysed, main_saved, main_downloaded, main_results,
                   main_tiled>>
    /\ UNCHANGED all_but_main_vars

NextMain == AnalyseDataset \/ LoadResult \/ MakeTiles \/ WriteSummary

InitMain ==
    /\ PipelineIdle /\ CountsIdle /\ FinderIdle /\ CodesIdle /\ LoopIdle
    /\ ReadyIdle
    /\ CentroidIdle
    /\ ReprojectIdle
    /\ RasterIdle
    /\ TilesIdle
    /\ TransferIdle
    /\ MainInit

SpecMain == InitMain /\ [][NextMain]_vars

\* ------------------------------------------------------------ properties
\* Every Binned Area Record built so far.
AllRecords ==
    {group_results[id] : id \in DOMAIN group_results} \cup
    UNION {{results[g][id] : id \in DOMAIN results[g]} : g \in DOMAIN results}

\* The geometry of the polygon the last views were made for.
LastGeometry ==
    LET rows == {CountryTable.rows[k] : k \in DOMAIN CountryTable.rows}
                \cup
                {Adm1Table.rows[k] : k \in DOMAIN Adm1Table.rows}
    IN  (CHOOSE r \in rows : r.id = views.polygon_id).geometry

LastIsPolygon == views.polygon_id \notin {"", "whole"}
LastIsWhole == views.polygon_id = "whole"

\* The record of the polygon processed last.
LastRecord ==
    IF views.polygon_id \in DOMAIN group_results
    THEN group_results[views.polygon_id]
    ELSE results[polygon_group_names[group_idx - 1]][views.polygon_id]

\* C1: in every record, for every bin, the total area is the sum of the
\* area inside protected areas and the area outside them.
C1_AreaAdditivity ==
    \A rec \in AllRecords :
        \A i \in DOMAIN rec.area_km2_by_bin :
            rec.area_km2_by_bin[i] =
                rec.area_km2_by_bin_in_PA[i] + rec.area_km2_by_bin_not_in_PA[i]

\* A run that has finished all three groups, with a country whose record
\* has protected area in some bin and area in the whole raster's record.
C1_Witness ==
    /\ group_idx > Len(polygon_group_names)
    /\ \E id \in DOMAIN results["country"] :
         \E i \in 1..(Len(bins) - 1) :
            /\ results["country"][id].area_km2_by_bin_in_PA[i] > 0
            /\ results["country"][id].area_km2_by_bin[i] > 0
    /\ \E i \in 1..(Len(bins) - 1) :
            results["whole"]["whole"].area_km2_by_bin[i] > 0

\* The last views with the stored value of pixel k replaced by w.
ViewsWithValue(k, w) ==
    [views EXCEPT !.raster_data.data[k] = w,
                  !.raster_data_masked.data[k] = w]

\* C4: a pixel masked in the raster passed to binning contributes to none
\* of the outputs: whatever value is stored under it, the record is the one
\* that was computed.
C4_MaskedPixelsDoNotContribute ==
    (LastIsPolygon \/ LastIsWhole) =>
        \A k \in DOMAIN views.raster_data.data :
            views.raster_data.mask[k] =>
                \A w \in (-1)..(MaxVal + 1) :
                    LET v == ViewsWithValue(k, w)
                    IN  get_bin_counts_wrapper(v.raster_data,
                            v.raster_data_masked, v.landuse_data, bins,
                            pixel_area_km2) = LastRecord

\* A polygon's views with a masked pixel (stored value inside the bins)
\* next to an unmasked pixel that is counted.
C4_Witness ==
    /\ LastIsPolygon
    /\ \E k \in DOMAIN views.raster_data.data :
         /\ views.raster_data.mask[k]
         /\ digitize(views.raster_data.data[k], bins) \in 1..(Len(bins) - 1)
    /\ \E i \in 1..(Len(bins) - 1) : LastRecord.area_km2_by_bin[i] > 0
    /\ DOMAIN LastRecord.area_km2_by_landuse_and_bin # {}

\* C5: every pixel excluded in the clipped-only view is excluded in the
\* view with protected areas applied, which has the same shape.
C5_PAMaskOnlyAddsExclusions ==
    /\ Len(views.raster_data_masked.mask) = Len(views.raster_data.mask)
    /\ \A k \in DOMAIN views.raster_data.mask :
         views.raster_data.mask[k] => views.raster_data_masked.mask[k]

\* A polygon's views where a protected pixel is excluded in both views and
\* another pixel is excluded by the protected-area mask alone.
C5_Witness ==
    /\ LastIsPolygon
    /\ \E k \in DOMAIN views.raster_data.mask :
         /\ views.raster_data.mask[k]
         /\ PA_mask[LastGeometry.lo + k - 1] = 1
    /\ \E k \in DOMAIN views.raster_data.mask :
         ~views.raster_data.mask[k] /\ views.raster_data_masked.mask[k]

\* The full-grid pixel under position k of the last (clipped) views.
GridPixel(k) == IF LastIsPolygon THEN LastGeometry.lo + k - 1 ELSE k

\* The three exclusion criteria of a full-grid pixel p.
IsNoData(p) == raster_src[p] = NoData
OutsidePolygon(p) == LastIsPolygon /\ p \notin LastGeometry.inside
NotProtected(p) == PA_mask[p] = 0

\* The other order: the protected-area exclusion is applied to the whole
\* raster (as in whole-raster mode), the result is handed to the clip as an
\* in-memory raster, and the polygon clip comes last.
PA_exclusion_then_clip(polygon) ==
    LET masked_by_PA == update_mask(read_masked(raster_src, NoData),
                            [k \in DOMAIN PA_mask |-> PA_mask[k] = 0])
        src == make_in_memory_raster(masked_by_PA, NoData)
    IN  clip_raster_to_polygon(polygon, src, NoData).data

\* C6: the final exclusion mask is the OR of no-data, outside the polygon
\* and not protected, and the protected-area exclusion followed by the
\* polygon clip gives the same mask as the clip followed by the exclusion.
C6_FinalMaskIsOrOfCriteria ==
    /\ (LastIsPolygon \/ LastIsWhole) =>
          \A k \in DOMAIN views.raster_data_masked.mask :
             views.raster_data_masked.mask[k] =
                (\/ IsNoData(GridPixel(k))
                 \/ OutsidePolygon(GridPixel(k))
                 \/ NotProtected(GridPixel(k)))
    /\ LastIsPolygon =>
          PA_exclusion_then_clip(LastGeometry).mask =
              views.raster_data_masked.mask

\* A polygon's views with one pixel excluded by the protected-area mask
\* alone and another excluded by the polygon alone.
C6_Witness ==
    /\ LastIsPolygon
    /\ \E k \in DOMAIN views.raster_data_masked.mask :
         /\ NotProtected(GridPixel(k))
         /\ ~IsNoData(GridPixel(k)) /\ ~OutsidePolygon(GridPixel(k))
    /\ \E k \in DOMAIN views.raster_data_masked.mask :
         /\ OutsidePolygon(GridPixel(k))
         /\ ~IsNoData(GridPixel(k)) /\ ~NotProtected(GridPixel(k))

\* The unmasked pixels of the array given to get_bin_counts.
Unmasked == {k \in DOMAIN bc_data.data : ~bc_data.mask[k]}

\* C2 (as claimed): the terminal bin includes the last boundary, so its
\* count is the number of unmasked pixels from the boundary before the last
\* up to and including the last.
C2_MaximumInTerminalBin ==
    bc_out.done =>
        LET n == Len(bc_bins)
        IN  bc_out.counts_by_bin[n - 1] =
                Cardinality({k \in Unmasked :
                    bc_bins[n - 1] <= bc_data.data[k]
                    /\ bc_data.data[k] <= bc_bins[n]})

\* C3: bin i, for i = 1 .. N - 1, counts exactly the unmasked pixels v with
\* bounds[i-1] <= v < bounds[i] (bounds indexed from 0 as in the source,
\* bc_bins from 1).
C3_RightOpenBins ==
    bc_out.done =>
        \A i \in 1..(Len(bc_bins) - 1) :
            bc_out.counts_by_bin[i] =
                Cardinality({k \in Unmasked :
                    bc_bins[i] <= bc_data.data[k]
                    /\ bc_data.data[k] < bc_bins[i + 1]})

\* The quarter-point bins with an unmasked pixel exactly on the interior
\* boundary 0.25 (here 1), counted in bin 2.
C3_Witness ==
    /\ bc_out.done
    /\ bc_bins = <<0, 1, 2, 3, 4>>
    /\ \E k \in Unmasked : bc_data.data[k] = bc_bins[2]
    /\ bc_out.counts_by_bin[2] >= 1
    /\ bc_out.counts_by_bin[1] = 0

\* ---- the intersection finder
Range(seq) == {seq[k] : k \in DOMAIN seq}
Ids(table, col) == {table[k].attrs[col] : k \in DOMAIN table}
Intersects(candidate) == ~is_empty(candidate.intersection)

\* Either fraction of the candidate is at least 0.01 (one hundredth).
EitherFractionAtLeastOnePercent(candidate) ==
    LET a == geometry_area(candidate.intersection)
    IN  \/ 100 * a >= geometry_area(candidate.geometry)
        \/ 100 * a >= raster_total_area_km2

\* The candidate has the given areas of intersection and of its polygon.
HasAreas(candidate, a, b) ==
    /\ geometry_area(candidate.intersection) = a
    /\ geometry_area(candidate.geometry) = b

CountryPassDone == pc \in {"adm1", "done"}
Adm1PassDone == pc = "done"

\* C7: a candidate with a non-empty intersection is dropped from the table
\* exactly when both its fraction of the polygon and its fraction of the
\* raster are below 0.01; with either fraction at least 0.01 it is kept.
C7_DiscardOnlyWhenBothFractionsSmall ==
    /\ CountryPassDone =>
          \A k \in DOMAIN gdf_adm0 :
              Intersects(gdf_adm0[k]) =>
                  (gdf_adm0[k].attrs.iso3 \in Ids(intersections_adm0, "iso3")
                      <=> EitherFractionAtLeastOnePercent(gdf_adm0[k]))
    /\ Adm1PassDone =>
          \A k \in DOMAIN gdf_adm1 :
              Intersects(gdf_adm1[k]) =>
                  (gdf_adm1[k].attrs.adm1_code
                          \in Ids(intersections_adm1, "adm1_code")
                      <=> EitherFractionAtLeastOnePercent(gdf_adm1[k]))

\* The raster covers 11000 km2; a country of 11000 km2 with 99 km2 in the
\* raster (0.009 / 0.009) is not in the table, and a country of 1000 km2
\* with 11 km2 in the raster (0.011 / 0.001) is.
C7_Witness ==
    /\ CountryPassDone
    /\ raster_total_area_km2 = 11000
    /\ \E k \in DOMAIN gdf_adm0 :
          /\ HasAreas(gdf_adm0[k], 99, 11000)
          /\ gdf_adm0[k].attrs.iso3 \notin Ids(intersections_adm0, "iso3")
    /\ \E k \in DOMAIN gdf_adm0 :
          /\ HasAreas(gdf_adm0[k], 11, 1000)
          /\ gdf_adm0[k].attrs.iso3 \in Ids(intersections_adm0, "iso3")

\* The table holds each id once, holds exactly the ids of the given
\* candidates that intersect the raster and pass the thresholds, and its
\* intersection areas do not increase from one row to the next.
ExactAndDescending(table, candidates, id_field) ==
    /\ Cardinality(Ids(table, id_field)) = Len(table)
    /\ Ids(table, id_field) =
          {candidates[k].attrs[id_field] : k \in
              {j \in DOMAIN candidates :
                  /\ Intersects(candidates[j])
                  /\ EitherFractionAtLeastOnePercent(candidates[j])}}
    /\ \A i, j \in DOMAIN table :
          i < j => table[i].area_of_intersection_km2
                      >= table[j].area_of_intersection_km2
    /\ \A i \in DOMAIN table :
          table[i].area_of_intersection_km2 = geometry_area(table[i].geometry)

\* C8: the returned table contains exactly the candidates with a non-empty
\* intersection that were not discarded, each once, ordered by
\* area_of_intersection_km2 descending.
C8_TableExactAndSortedDescending ==
    /\ CountryPassDone =>
          ExactAndDescending(intersections_adm0, gdf_adm0, "iso3")
    /\ Adm1PassDone =>
          ExactAndDescending(intersections_adm1, gdf_adm1, "adm1_code")

\* A table of two rows with different areas, built from candidates of which
\* one was empty or discarded, and given with the smaller area first.
C8_Witness ==
    /\ CountryPassDone
    /\ Len(intersections_adm0) >= 2
    /\ intersections_adm0[1].area_of_intersection_km2
          > intersections_adm0[Len(intersections_adm0)].area_of_intersection_km2
    /\ \E i, j \in DOMAIN gdf_adm0 :
          /\ i < j
          /\ Intersects(gdf_adm0[i]) /\ Intersects(gdf_adm0[j])
          /\ gdf_adm0[i].attrs.iso3 \in Ids(intersections_adm0, "iso3")
          /\ gdf_adm0[j].attrs.iso3 \in Ids(intersections_adm0, "iso3")
          /\ geometry_area(gdf_adm0[i].intersection)
                < geometry_area(gdf_adm0[j].intersection)

\* The country of an admin-1 code, as the admin-1 file gives it.
CountriesOfZone(code) ==
    {adm1_file[k].attrs.adm0_iso3 : k \in
        {j \in DOMAIN adm1_file : adm1_file[j].attrs.adm1_code = code}}

\* C9: the admin-1 pass has no result before the country pass has one; the
\* zones it considers all belong to countries in adm0_list; every code in
\* adm1_list belongs to a country in adm0_list.
C9_Adm1PassNarrowedByCountryPass ==
    /\ ~Adm1PassDone =>
          gdf_adm1 = <<>> /\ intersections_adm1 = <<>> /\ list_of_adm1 = <<>>
    /\ \A k \in DOMAIN gdf_adm1 :
          gdf_adm1[k].attrs.adm0_iso3 \in Range(list_of_adm0)
    /\ Adm1PassDone =>
          /\ Range(list_of_adm0) = Ids(intersections_adm0, "iso3")
          /\ Range(list_of_adm1) = Ids(intersections_adm1, "adm1_code")
          /\ \A code \in Range(list_of_adm1) :
                CountriesOfZone(code) \subseteq Range(list_of_adm0)

\* Both passes returned rows, and the admin-1 file has a zone that
\* intersects the raster and passes the thresholds but whose country was
\* discarded by the country pass.
C9_Witness ==
    /\ Adm1PassDone
    /\ list_of_adm1 # <<>>
    /\ \E k \in DOMAIN adm1_file :
          /\ Intersects(adm1_file[k])
          /\ EitherFractionAtLeastOnePercent(adm1_file[k])
          /\ adm1_file[k].attrs.adm0_iso3 \notin Range(list_of_adm0)
          /\ \E j \in DOMAIN gdf_adm0 :
                /\ gdf_adm0[j].attrs.iso3 = adm1_file[k].attrs.adm0_iso3
                /\ Intersects(gdf_adm0[j])

\* The number of polygons among the members of a collection, those inside
\* its MultiPolygons included, and the number of its other members.
RECURSIVE NumberOfPolygons(_)
NumberOfPolygons(geoms) ==
    IF geoms = <<>> THEN 0
    ELSE (IF Head(geoms).type = "Polygon" THEN 1
          ELSE IF Head(geoms).type = "MultiPolygon" THEN Len(Head(geoms).geoms)
          ELSE 0) + NumberOfPolygons(Tail(geoms))

\* A non-empty intersection no row can be made of: a collection without a
\* polygon, or a geometry that is no Polygon, MultiPolygon or collection.
Unusable(candidate) ==
    /\ Intersects(candidate)
    /\ IF candidate.intersection.type = "GeometryCollection"
       THEN NumberOfPolygons(candidate.intersection.geoms) = 0
       ELSE candidate.intersection.type \notin {"Polygon", "MultiPolygon"}

\* The row stored for the candidate, if any, is right: a collection is
\* stored as the MultiPolygon of its polygons alone.
StoredAsPolygons(table, candidate, id_field) ==
    \A i \in DOMAIN table :
        table[i].attrs[id_field] = candidate.attrs[id_field] =>
            IF candidate.intersection.type = "GeometryCollection"
            THEN /\ table[i].geometry.type = "MultiPolygon"
                 /\ \A m \in DOMAIN table[i].geometry.geoms :
                       table[i].geometry.geoms[m].type = "Polygon"
                 /\ Len(table[i].geometry.geoms)
                       = NumberOfPolygons(candidate.intersection.geoms)
            ELSE table[i].geometry = candidate.intersection

\* C10: a collection is stored as the MultiPolygon of its polygonal
\* members, without its points and lines; a collection with no polygonal
\* member, or a non-empty intersection of another type, is an error, and
\* then the run returns no row at all.
C10_CollectionsTidiedOrRejected ==
    /\ \A k \in DOMAIN gdf_adm0 :
          StoredAsPolygons(intersections_adm0, gdf_adm0[k], "iso3")
    /\ \A k \in DOMAIN gdf_adm1 :
          StoredAsPolygons(intersections_adm1, gdf_adm1[k], "adm1_code")
    /\ \A k \in DOMAIN gdf_adm1 : ~Unusable(gdf_adm1[k])
    /\ (\E k \in DOMAIN gdf_adm0 : Unusable(gdf_adm0[k])) =>
          /\ pc \in {"start", "error"}
          /\ intersections_adm0 = <<>> /\ list_of_adm0 = <<>>
          /\ intersections_adm1 = <<>> /\ list_of_adm1 = <<>>
    /\ pc = "error" =>
          /\ intersections_adm0 = <<>> /\ list_of_adm0 = <<>>
          /\ intersections_adm1 = <<>> /\ list_of_adm1 = <<>>

\* The country pass stored a row for a collection that held a line.
C10_Witness ==
    /\ CountryPassDone
    /\ \E k \in DOMAIN gdf_adm0 : \E i \in DOMAIN intersections_adm0 :
          /\ gdf_adm0[k].intersection.type = "GeometryCollection"
          /\ \E m \in DOMAIN gdf_adm0[k].intersection.geoms :
                gdf_adm0[k].intersection.geoms[m].type = "LineString"
          /\ intersections_adm0[i].attrs.iso3 = gdf_adm0[k].attrs.iso3
          /\ intersections_adm0[i].geometry.type = "MultiPolygon"

\* A run ended in an error because of an unusable candidate.
C10_ErrorReached ==
    /\ pc = "error"
    /\ \E k \in DOMAIN gdf_adm0 : Unusable(gdf_adm0[k])

\* ---- the admin-1 code generator
ZonesOf(layer, adm0_iso3) ==
    {k \in DOMAIN layer : layer[k].adm0_iso3 = adm0_iso3}

\* The layer gives the zones of every country the codes ISO3_001 to
\* ISO3_00N, each once, in ascending order of name.
CodesInNameOrder(layer) ==
    \A c \in DOMAIN Iso3Codes :
        LET zones == ZonesOf(layer, Iso3Codes[c])
            N == Cardinality(zones)
        IN  /\ {layer[k].adm1_code : k \in zones}
                  = {format_code(Iso3Codes[c], i - 1) : i \in 1..N}
            /\ Cardinality({layer[k].adm1_code : k \in zones}) = N
            /\ \A j, k \in zones :
                  position_in(ZoneNames, layer[j].name)
                        < position_in(ZoneNames, layer[k].name)
                     => \E a, b \in 1..N :
                           /\ a < b
                           /\ layer[j].adm1_code
                                 = format_code(Iso3Codes[c], a - 1)
                           /\ layer[k].adm1_code
                                 = format_code(Iso3Codes[c], b - 1)

\* C11: after a run, the zones of every country with N zones carry the
\* codes ISO3_001 to ISO3_00N of their own country, the k-th zone in
\* ascending order of name carrying number k, whatever the order of the
\* rows in the file that was read.
C11_CodesFollowNameOrderInEachCountry ==
    n_runs >= 1 => CodesInNameOrder(cgaz_gpkg)

C13_ExistingResultsAreNotRecomputed ==
    \A k \in had_result :
        /\ k \notin computed
        /\ aws_results[k] # File(n_loop_runs)
        /\ local_results[k] # File(n_loop_runs)

\* C14: an error in one dataset does not end the loop: when the run is
\* over, the iteration of every dataset not set to ignore has begun.
C14_LoopContinuesAfterError ==
    loop_pc \in {"returned", "raised"} =>
        \A k \in DOMAIN catalog : catalog[k].ignore = "no" => k \in visited

\* C16: at most one dataset is in work; a dataset completed in this run has
\* its results on disk and in the bucket before the next one begins; and a
\* later run finds the results of every dataset completed before and does
\* not analyse it again.
C16_CompletedDatasetsArePersisted ==
    /\ \A k \in visited : k <= dataset_idx
    /\ \A k \in completed :
          exists(local_results[k]) /\ exists(aws_results[k])
    /\ computed \cap completed_before = {}

\* ---- missing remote objects
\* C15: with no catalog in the bucket when the program starts, loading the
\* catalogs does not fail, and the sync gives the local catalog alone; with
\* no manifest in the bucket, reading the maximum zoom does not fail.
C15_MissingRemoteObjectsAreNotFatal ==
    /\ ~s3_catalog_at_start.exists =>
          /\ ready_pc # "raised"
          /\ ready_pc \in {"ready", "done", "manifest_raised"} =>
                synced_catalog = catalog_local
    /\ ~s3_manifest.exists => ready_pc # "manifest_raised"

\* ---- the geographic centroid
WithinTolerance(a, b) == b - a < tolerance /\ a - b < tolerance

LastStepConverged ==
    WithinTolerance(previous_lon, lon) /\ WithinTolerance(previous_lat, lat)

\* C17: for a valid, non-empty polygon the function raises no error and
\* takes at most max_iterations re-centering steps; while it has not
\* returned a further step remains and no step so far has converged; what it
\* returns is the newest estimate, returned because the last step converged
\* or because it was step number max_iterations.
C17_CentroidReturnsWithinMaxIterations ==
    polygon_is_valid =>
        /\ centroid_pc # "raised"
        /\ n_steps <= max_iterations
        /\ centroid_pc = "loop" =>
              /\ n_steps < max_iterations
              /\ n_steps >= 1 => ~LastStepConverged
        /\ centroid_pc = "returned" =>
              /\ returned_centroid = <<lon, lat>>
              /\ n_steps = max_iterations \/ (n_steps >= 1 /\ LastStepConverged)

\* The function returned after max_iterations steps, more than one, the
\* last of which did not converge.
C17_Witness ==
    /\ polygon_is_valid
    /\ centroid_pc = "returned"
    /\ max_iterations >= 2
    /\ n_steps = max_iterations
    /\ ~LastStepConverged
    /\ returned_centroid = <<lon, lat>>

\* ---- reprojection
\* C18: when the grids correspond pixel for pixel, every pixel masked in
\* the array given to reproject_raster is masked in the array it returns.
C18_MaskedPixelsStayMasked ==
    (rp_returned # <<>> /\ rp_grid = PixelForPixel) =>
        \A p \in Pixels : rp_raster_data.mask[p] => rp_returned.mask[p]

\* ---- the end-to-end scenario
RECURSIVE sum(_)
sum(seq) == IF seq = <<>> THEN 0 ELSE Head(seq) + sum(Tail(seq))

ValidPixels == {p \in ScenarioPixels : raster_src[p] # NoData}

\* C19: in the checkerboard scenario the bin totals of the left-half
\* polygon are the area of the valid pixels of the left half, and its in-PA
\* totals are the area of the valid pixels of the top-left quadrant.
C19_ScenarioTotalsCountValidPixels ==
    group_results # <<>> =>
        LET record == group_results["left-half"]
        IN  /\ sum(record.area_km2_by_bin) =
                 pixel_area_km2 * Cardinality(ValidPixels \cap LeftHalf)
            /\ sum(record.area_km2_by_bin_in_PA) =
                 pixel_area_km2 *
                    Cardinality(ValidPixels \cap LeftHalf \cap TopHalf)

\* ---- land-use cross-tabulation
\* The pixels of the last views whose land use is unmasked, and those that
\* are unmasked in the raster as well.
LanduseUnmasked ==
    {k \in DOMAIN views.landuse_data.data : ~views.landuse_data.mask[k]}
UnmaskedInBoth == {k \in LanduseUnmasked : ~views.raster_data.mask[k]}

\* Every entry of the table is a list of 4 areas, element k of the entry of
\* a category being pixel_area_km2 times the number of pixels of that
\* category, unmasked in both rasters, whose bin index is k + 1.
AreasByCategoryAndBin(table) ==
    \A cat_val \in DOMAIN table :
        /\ Len(table[cat_val]) = 4
        /\ \A k \in 0..3 :
             table[cat_val][k + 1] =
                pixel_area_km2 * Cardinality({j \in UnmaskedInBoth :
                    /\ views.landuse_data.data[j] = cat_val
                    /\ digitize(views.raster_data.data[j], bins) = k + 1})

BinnedAreaRecordFields ==
    {"area_km2_by_bin", "area_km2_by_bin_in_PA", "area_km2_by_bin_not_in_PA",
     "area_km2_by_landuse_and_bin"}

\* C21: the results returned for a raster hold the groups whole, country
\* and adm1-zone; whole has the one record 'whole', the ids under country
\* are those of adm0_list and the ids under adm1-zone those of adm1_list,
\* and every id maps to a Binned Area Record.
C21_ResultsHoldThreeGroups ==
    raster_pc = "done" =>
        LET groups == raster_results.groups
        IN  /\ DOMAIN groups = {"whole", "country", "adm1-zone"}
            /\ DOMAIN groups["whole"] = {"whole"}
            /\ DOMAIN groups["country"] = Range(raster_results.adm0_list)
            /\ DOMAIN groups["adm1-zone"] = Range(raster_results.adm1_list)
            /\ \A g \in DOMAIN groups : \A id \in DOMAIN groups[g] :
                 /\ DOMAIN groups[g][id] = BinnedAreaRecordFields
                 /\ Len(groups[g][id].area_km2_by_bin) = Len(bins) - 1

\* Results with two countries and at least one admin-1 zone in them.
C21_Witness ==
    /\ raster_pc = "done"
    /\ Cardinality(DOMAIN raster_results.groups["country"]) >= 2
    /\ DOMAIN raster_results.groups["adm1-zone"] # {}

\* C22: a raster with a projected CRS is not reprojected, and once its
\* intersections are found the binning of its polygon groups does not
\* fail; a raster is reprojected only when its CRS is missing or
\* geographic.
C22_ProjectedRasterIsBinnedOnItsOwnGrid ==
    /\ (crs = "projected" /\ pc = "done") => raster_pc # "raised"
    /\ dst_crs = "regional" => crs \in {"none", "geographic"}

C24_InPACountsNeverExceedTotals ==
    /\ \A rec \in AllRecords :
         \A i \in DOMAIN rec.area_km2_by_bin :
            /\ rec.area_km2_by_bin_in_PA[i] <= rec.area_km2_by_bin[i]
            /\ rec.area_km2_by_bin_not_in_PA[i] >= 0
    /\ views.raster_data_masked.data = views.raster_data.data

\* A record with a bin that has area both inside and outside protected
\* areas, from views in which a no-data pixel lies on a protected pixel.
C24_Witness ==
    /\ \E rec \in AllRecords : \E i \in DOMAIN rec.area_km2_by_bin :
         /\ rec.area_km2_by_bin_in_PA[i] > 0
         /\ rec.area_km2_by_bin_not_in_PA[i] > 0
    /\ \E p \in DOMAIN raster_src : IsNoData(p) /\ ~NotProtected(p)

\* ---- every pixel in at most one bin
\* C25: the counts of get_bin_counts add up to at most the number of
\* unmasked pixels, and to exactly that number when, and only when, no
\* unmasked value lies below the first boundary or at or above the last.
C25_CountsAddUpToAtMostTheUnmaskedPixels ==
    bc_out.done =>
        LET n == Len(bc_bins)
            total == sum(bc_out.counts_by_bin)
        IN  /\ total <= Cardinality(Unmasked)
            /\ total = Cardinality(Unmasked) <=>
                 \A k \in Unmasked :
                    /\ bc_bins[1] <= bc_data.data[k]
                    /\ bc_data.data[k] < bc_bins[n]

\* Two unmasked pixels, one counted and one on the last boundary.
C25_Witness ==
    /\ bc_out.done
    /\ sum(bc_out.counts_by_bin) = 1
    /\ Cardinality(Unmasked) = 2
    /\ \E k \in Unmasked : bc_data.data[k] = bc_bins[Len(bc_bins)]

\* ---- tiles on the remote
\* C26: between calls of the wrapper, a tileset whose manifest is on the
\* remote has every one of its tile files on the remote.
C26_RemoteManifestImpliesAllTiles ==
    (tiles_pc \in {"start", "returned", "stopped"}
        /\ tile_manifest \in tiles_remote) =>
            tile_files \subseteq tiles_remote

\* ---- transfers and overwrite
\* What C27 says of a call with overwrite false, and of an upload without
\* a local file.
NothingReplacedWithoutOverwrite ==
    /\ (last_transfer.op # "none" /\ ~last_transfer.overwrite
            /\ last_transfer.destination_existed) =>
          (last_transfer.unchanged /\ ~last_transfer.returned)
    /\ (last_transfer.op = "upload" /\ ~last_transfer.source_exists) =>
          (last_transfer.unchanged /\ ~last_transfer.returned)

Keys(catalog_) == {catalog_[k].key : k \in DOMAIN catalog_}

\* What sync_catalogs returns: the keys of both catalogs, every local entry
\* as it was, and a remote entry only for a key the local catalog lacks.
SyncedCatalogIsLocalPlusRemoteOnly ==
    /\ Keys(synced_catalog) = Keys(catalog_local) \cup Keys(catalog_remote)
    /\ \A k \in DOMAIN catalog_local : synced_catalog[k] = catalog_local[k]
    /\ \A k \in DOMAIN synced_catalog :
         k > Len(catalog_local) =>
            /\ synced_catalog[k] \in Range(catalog_remote)
            /\ synced_catalog[k].key \notin Keys(catalog_local)
    /\ Len(synced_catalog) = Cardinality(Keys(synced_catalog))

\* C28: once sync_catalogs has returned, the synced catalog is the local
\* catalog plus the remote entries of other keys, and it is the catalog on
\* disk and the catalog in the bucket.
C28_SyncedCatalogWrittenAndUploaded ==
    ready_pc \in {"ready", "done", "manifest_raised"} =>
        /\ SyncedCatalogIsLocalPlusRemoteOnly
        /\ disk_catalog = Holding(synced_catalog)
        /\ s3_catalog = Holding(synced_catalog)

\* ---- the rasters are left as they were
\* The record of row i of a table (or of the whole raster), computed from
\* the raster as it was loaded.
record_from_loaded_raster(polygons_GDF, i) ==
    bin_raster_for_one_polygon(polygons_GDF, i,
        read_masked(raster_src, NoData), raster_src, PA_mask, landuse_src,
        bins, pixel_area_km2)

RecordsAreThoseOfTheLoadedRaster(name, records) ==
    \A id \in DOMAIN records :
        \E i \in 1..n_polys(dict_of_polygon_GDFs[name]) :
            LET out == record_from_loaded_raster(dict_of_polygon_GDFs[name], i)
            IN  out.polygon_id = id /\ out.record = records[id]

RastersUnchanged ==
    /\ raster_data' = raster_data
    /\ raster_src' = raster_src
    /\ landuse_src' = landuse_src
    /\ PA_mask' = PA_mask

Ignored == {k \in DOMAIN main_catalog : main_catalog[k].ignore = "yes"}

\* C30: a row with ignore 'yes' is never analysed, never has a results file
\* written or uploaded, never has its results asked from the bucket and
\* never has tiles made; and every row tiles are made for has its results
\* in the loaded results map.
C30_IgnoredRowsAreLeftAlone ==
    /\ Ignored \cap (main_analysed \cup main_saved \cup main_downloaded
                        \cup main_tiled \cup DOMAIN main_results) = {}
    /\ main_tiled \subseteq DOMAIN main_results

\* main ran to its end with an ignored row that had no results in the
\* bucket, a row that was analysed, and tiles made.
C30_Witness ==
    /\ main_pc = "done"
    /\ \E k \in Ignored : ~exists(main_bucket[k])
    /\ main_analysed # {}
    /\ main_tiled # {}

====
